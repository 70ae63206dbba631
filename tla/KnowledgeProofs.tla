--------------------------- MODULE KnowledgeProofs ---------------------------
(***************************************************************************)
(* That every stored learning has the embedding of its text, that a batch  *)
(* told to be drained is stored, and that Postgres and the file on S3      *)
(* implement the abstract table, step by step.  The invariant they rest    *)
(* on: an id is minted once, by an attempt that is over by the time the    *)
(* row can be seen; a copy that waits to be saved is the outcome of its    *)
(* call on the file it was loaded from; and an open transaction keeps      *)
(* what it inserted and what it locked from the others.                    *)
(***************************************************************************)
EXTENDS Knowledge, FiniteSetTheorems, SequenceTheorems, TLAPS

(* Which items of a batch are new *)

\* The places of a finite set of places are counted through, each once.
LEMMA PlacesCounted ==
    ASSUME NEW S, S \subseteq Nat, IsFiniteSet(S)
    PROVE  /\ Cardinality(S) \in Nat
           /\ \A i \in S : UpTo(S, i) \in 1 .. Cardinality(S)
           /\ \A i, j \in S : UpTo(S, i) = UpTo(S, j) => i = j
           /\ \A n \in 1 .. Cardinality(S) : \E i \in S : UpTo(S, i) = n
  <1> DEFINE Before(i) == {j \in S : j <= i}
  <1>1. Cardinality(S) \in Nat
    BY FS_CardinalityType
  <1>2. ASSUME NEW i \in S
        PROVE  /\ Before(i) \subseteq S /\ i \in Before(i) /\ IsFiniteSet(Before(i))
               /\ Cardinality(Before(i)) \in 1 .. Cardinality(S)
    <2>1. Before(i) \subseteq S /\ i \in Before(i)
      OBVIOUS
    <2>2. IsFiniteSet(Before(i)) /\ Cardinality(Before(i)) <= Cardinality(S)
      BY <2>1, FS_Subset
    <2>3. Cardinality(Before(i)) \in Nat /\ Cardinality(Before(i)) # 0
      BY <2>1, <2>2, FS_CardinalityType, FS_EmptySet
    <2>4. QED
      BY <1>1, <2>1, <2>2, <2>3
  <1>3. ASSUME NEW i \in S, NEW j \in S, i < j
        PROVE  Cardinality(Before(i)) < Cardinality(Before(j))
    <2>1. Before(i) \in SUBSET Before(j) /\ j \notin Before(i) /\ j \in Before(j)
      <3>1. i \in Nat /\ j \in Nat
        OBVIOUS
      <3>2. \A l \in S : l \in Nat
        OBVIOUS
      <3>3. j \notin Before(i) /\ j \in Before(j)
        BY <1>3, <3>1
      <3>4. \A l \in S : l <= i => l <= j
        BY <1>3, <3>1, <3>2
      <3> QED
        BY <3>3, <3>4
    <2>2. IsFiniteSet(Before(j))
      BY <1>2
    <2>3. Cardinality(Before(i)) <= Cardinality(Before(j)) /\ Cardinality(Before(i)) # Cardinality(Before(j))
      BY <2>1, <2>2, FS_Subset
    <2>4. Cardinality(Before(i)) \in Nat /\ Cardinality(Before(j)) \in Nat
      BY <1>1, <1>2
    <2> QED
      BY <2>3, <2>4
  <1>4. \A i, j \in S : UpTo(S, i) = UpTo(S, j) => i = j
    <2> SUFFICES ASSUME NEW i \in S, NEW j \in S, UpTo(S, i) = UpTo(S, j) PROVE i = j
      OBVIOUS
    <2>1. Cardinality(Before(i)) = Cardinality(Before(j)) /\ Cardinality(Before(i)) \in Nat
      BY <1>1, <1>2 DEF UpTo
    <2>2. ~ (i < j) /\ ~ (j < i)
      BY <1>3, <2>1
    <2> QED
      BY <2>2
  <1>5. \A i \in S : UpTo(S, i) \in 1 .. Cardinality(S)
    BY <1>2 DEF UpTo
  <1> DEFINE T == 1 .. Cardinality(S)
             f == [i \in S |-> UpTo(S, i)]
  <1>6. f \in Injection(S, T)
    BY <1>4, <1>5 DEF Injection, IsInjective
  <1>7. IsFiniteSet(T) /\ Cardinality(T) = Cardinality(S)
    BY <1>1, FS_Interval
  <1>8. f \in Surjection(S, T)
    <2> HIDE DEF T, f
    <2> QED BY <1>6, <1>7, FS_Injection
  <1>9. \A n \in T : \E i \in S : f[i] = n
    BY <1>8 DEF Surjection
  <1>10. \A n \in 1 .. Cardinality(S) : \E i \in S : UpTo(S, i) = n
    BY <1>9
  <1> QED
    BY <1>1, <1>4, <1>5, <1>10

LEMMA SequenceOf ==
    ASSUME NEW f, NEW n \in Nat, DOMAIN f = 1 .. n, f = [i \in DOMAIN f |-> f[i]]
    PROVE  f \in Seq(Range(f)) /\ Len(f) = n
  BY DEF Range

LEMMA FirstPlace ==
    ASSUME NEW s, NEW n \in Nat, DOMAIN s = 1 .. n, NEW i \in DOMAIN s
    PROVE  \E j \in DOMAIN s : s[j] = s[i] /\ \A l \in 1 .. j - 1 : s[l] # s[i]
  <1> DEFINE S == {j \in DOMAIN s : s[j] = s[i]}
  <1>1. i \in S /\ S \subseteq Nat
    OBVIOUS
  <1>2. PICK j \in S : \A l \in S : ~(l < j)
    <2>1. IsFiniteSet(S)
      BY FS_Interval, FS_Subset
    <2>2. S # {}
      BY <1>1
    <2>3. Cardinality(S) \in Nat \ {0}
      BY <2>1, <2>2, FS_CardinalityType, FS_EmptySet
    <2>4. PICK j \in S : UpTo(S, j) = 1
      <3> HIDE DEF S
      <3> QED BY <1>1, <2>1, <2>3, PlacesCounted
    <2>5. ASSUME NEW l \in S, l < j PROVE FALSE
      <3>1. /\ {x \in S : x <= l} \in SUBSET {x \in S : x <= j}
            /\ j \notin {x \in S : x <= l} /\ j \in {x \in S : x <= j}
        BY <2>5
      <3>2. IsFiniteSet({x \in S : x <= j}) /\ IsFiniteSet({x \in S : x <= l})
        <4> HIDE DEF S
        <4> QED BY <2>1, FS_Subset
      <3>3. /\ Cardinality({x \in S : x <= l}) # Cardinality({x \in S : x <= j})
            /\ Cardinality({x \in S : x <= l}) <= Cardinality({x \in S : x <= j})
        BY <3>1, <3>2, FS_Subset
      <3>4. Cardinality({x \in S : x <= l}) \in Nat /\ Cardinality({x \in S : x <= l}) # 0
        <4>1. l \in {x \in S : x <= l}
          OBVIOUS
        <4> HIDE DEF S
        <4> QED BY <4>1, <3>2, FS_CardinalityType, FS_EmptySet
      <3> QED
        BY <3>3, <3>4, <2>4 DEF UpTo
    <2> QED BY <2>5
  <1>3. \A l \in 1 .. j - 1 : l \in DOMAIN s /\ l < j
    OBVIOUS
  <1> QED
    BY <1>2, <1>3

\* partition: what is sent to be embedded is of the batch, and when nothing was
\* deferred everything else of the batch is stored.
LEMMA Partitioned ==
    ASSUME NEW items, items \in Seq(Range(items)), NEW existing, NEW cap \in Nat,
           NEW p, p = partition(items, existing, cap)
    PROVE  /\ p.todo \in Seq(Range(p.todo)) /\ p.skipped \in Int
           /\ Range(p.todo) \subseteq Range(items)
           /\ p.skipped + Len(p.todo) = Len(items) =>
                 \A i \in DOMAIN items : items[i] \in existing \cup Range(p.todo)
  <1> DEFINE new == NewItems(items, existing)
             m == AtMost(cap, new)
             place(n) == CHOOSE i \in new : UpTo(new, i) = n
  <1>1. Len(items) \in Nat /\ DOMAIN items = 1 .. Len(items)
    OBVIOUS
  <1>2. /\ new \subseteq DOMAIN items /\ new \subseteq Nat
        /\ \A i \in new : /\ items[i] \notin existing
                          /\ \A j \in 1 .. i - 1 : items[j] # items[i]
        /\ \A i \in DOMAIN items : items[i] \notin existing
              /\ (\A j \in 1 .. i - 1 : items[j] # items[i]) => i \in new
    BY <1>1 DEF NewItems
  <1> HIDE DEF new
  <1>3. IsFiniteSet(new)
    <2>1. IsFiniteSet(1 .. Len(items))
      BY <1>1, FS_Interval
    <2>2. new \in SUBSET (1 .. Len(items))
      BY <1>1, <1>2
    <2> QED
      BY <2>1, <2>2, FS_Subset
  <1>4. /\ Cardinality(new) \in Nat
        /\ \A i \in new : UpTo(new, i) \in 1 .. Cardinality(new)
        /\ \A i, j \in new : UpTo(new, i) = UpTo(new, j) => i = j
        /\ \A n \in 1 .. Cardinality(new) : \E i \in new : UpTo(new, i) = n
    BY <1>2, <1>3, PlacesCounted
  <1>5. m \in Nat /\ m <= Cardinality(new)
    BY <1>4 DEF AtMost
  <1>6. ASSUME NEW n \in 1 .. m PROVE place(n) \in new /\ UpTo(new, place(n)) = n
    <2>1. \E i \in new : UpTo(new, i) = n
      BY <1>4, <1>5
    <2> QED
      BY <2>1
  <1> HIDE DEF m, place
  <1>7. /\ p.todo = [n \in 1 .. m |-> items[place(n)]]
        /\ p.skipped = Len(items) - Cardinality(new)
    BY DEF partition, FirstOf, m, place, new
  <1>8. p.todo \in Seq(Range(p.todo)) /\ Len(p.todo) = m
    <2>1. DOMAIN p.todo = 1 .. m /\ p.todo = [n \in DOMAIN p.todo |-> p.todo[n]]
      BY <1>7
    <2> QED
      BY <1>5, <2>1, SequenceOf
  <1>9. Range(p.todo) \subseteq Range(items)
    BY <1>2, <1>6, <1>7 DEF Range
  <1>10. ASSUME p.skipped + Len(p.todo) = Len(items), NEW i \in DOMAIN items,
                items[i] \notin existing
         PROVE  items[i] \in Range(p.todo)
    <2>1. m = Cardinality(new)
      BY <1>1, <1>4, <1>5, <1>7, <1>8, <1>10
    <2>2. PICK j \in DOMAIN items : items[j] = items[i] /\ \A l \in 1 .. j - 1 : items[l] # items[i]
      BY <1>1, FirstPlace
    <2>3. j \in new
      BY <1>2, <1>10, <2>2
    <2>4. UpTo(new, j) \in 1 .. m /\ place(UpTo(new, j)) = j
      BY <1>4, <1>6, <2>1, <2>3
    <2> QED
      BY <1>7, <2>2, <2>4 DEF Range
  <1>11. p.skipped \in Int
    BY <1>1, <1>4, <1>7
  <1> QED
    BY <1>8, <1>9, <1>10, <1>11

-----------------------------------------------------------------------------
(* How the record of a call changes *)

IsCall(x) ==
    x = [n |-> x.n, pass |-> x.pass, phase |-> x.phase, req |-> x.req, todo |-> x.todo,
         skipped |-> x.skipped, snap |-> x.snap, got |-> x.got]

\* n and pass count calls and their attempts.
CallOK(x) ==
    /\ IsCall(x)
    /\ x.n \in Nat /\ x.pass \in Nat /\ x.skipped \in Int
    /\ x.phase \in {"idle", "pending", "looked", "ended"}
    /\ x.req \in Requests \cup {Query}
    /\ x.todo \in Seq(Range(x.todo))
    /\ x.phase # "looked" => x.todo = <<>>
    /\ x.req.op = "ingest" => \A k \in Range(x.todo) : k = Key(k.text, k.source)

CallsOK ==
    /\ call = [c \in Callers |-> call[c]]
    /\ \A c \in Callers : CallOK(call[c])

\* x became y: the call is the same or a later attempt, and an attempt that is over
\* stays over.
Onward(x, y) ==
    \/ y.n > x.n
    \/ y.n = x.n /\ y.pass > x.pass
    \/ y.n = x.n /\ y.pass = x.pass /\ (x.phase = "ended" => y.phase = "ended")

\* The step concerns c's call alone.
CallStep(c) ==
    /\ call' = [d \in Callers |-> call'[d]]
    /\ \A d \in Callers \ {c} : call'[d] = call[d]
    /\ CallOK(call'[c])
    /\ Onward(call[c], call'[c])

LEMMA EmptyTodo == <<>> \in Seq(Range(<<>>)) /\ Range(<<>>) = {} /\ Len(<<>>) = 0
  BY DEF Range

LEMMA NoCallChange ==
    ASSUME CallsOK, NEW c \in Callers, call' = call
    PROVE  CallStep(c)
  BY DEF CallsOK, CallStep, Onward, CallOK

LEMMA IdleCall ==
    /\ IsCall(Idle)
    /\ Idle.n = 0 /\ Idle.pass = 0 /\ Idle.phase = "idle" /\ Idle.req = Query
    /\ Idle.todo = <<>> /\ Idle.skipped = 0 /\ Idle.got = Silence
  BY DEF Idle, IsCall

LEMMA IdleOK == CallOK(Idle)
  BY IdleCall, EmptyTodo DEF CallOK

LEMMA BeginCall ==
    ASSUME CallsOK, NEW c \in Callers, Begin(c)
    PROVE  /\ CallStep(c)
           /\ call'[c].phase = "pending" /\ call'[c].got = Silence
           /\ call[c].phase \in {"idle", "ended"}
  <1>1. PICK req \in Requests :
           call' = [call EXCEPT ![c] = [Idle EXCEPT !.n = call[c].n + 1, !.pass = 1,
                                                    !.phase = "pending", !.req = req]]
    BY DEF Begin
  <1>2. CallOK(call[c])
    BY DEF CallsOK
  <1>3. PICK y : y = [Idle EXCEPT !.n = call[c].n + 1, !.pass = 1, !.phase = "pending", !.req = req]
    OBVIOUS
  <1>4. /\ IsCall(y) /\ y.n = call[c].n + 1 /\ y.pass = 1 /\ y.phase = "pending" /\ y.req = req
        /\ y.todo = <<>> /\ y.skipped = 0 /\ y.got = Silence
    BY <1>3, IdleCall DEF IsCall
  <1>5. CallOK(y) /\ Onward(call[c], y)
    BY <1>2, <1>4, EmptyTodo DEF CallOK, Onward
  <1>6. call'[c] = y /\ call' = [d \in Callers |-> call'[d]] /\ \A d \in Callers \ {c} : call'[d] = call[d]
    BY <1>1, <1>3 DEF CallsOK
  <1>7. call[c].phase \in {"idle", "ended"}
    BY DEF Begin
  <1> QED
    BY <1>4, <1>5, <1>6, <1>7 DEF CallStep

\* One call's record takes the place of its old one.
LEMMA OneCall ==
    ASSUME CallsOK, NEW c \in Callers, NEW y, call' = [call EXCEPT ![c] = y],
           CallOK(y), Onward(call[c], y)
    PROVE  CallStep(c) /\ call'[c] = y
  <1>1. call'[c] = y /\ call' = [d \in Callers |-> call'[d]] /\ \A d \in Callers \ {c} : call'[d] = call[d]
    BY DEF CallsOK
  <1> QED
    BY <1>1 DEF CallStep

LEMMA SendCall ==
    ASSUME CallsOK, NEW c \in Callers, SendAgain(c)
    PROVE  /\ CallStep(c)
           /\ call'[c].phase = "pending" /\ call'[c].got = Silence
           /\ call[c].phase = "ended"
  <1>1. CallOK(call[c]) /\ call[c].phase = "ended"
    BY DEF CallsOK, SendAgain, DrainDue, Stored
  <1>2. PICK y : y = [call[c] EXCEPT !.phase = "pending", !.pass = call[c].pass + 1, !.got = Silence]
    OBVIOUS
  <1>3. call' = [call EXCEPT ![c] = y]
    BY <1>2 DEF SendAgain, CallsOK
  <1>4. /\ IsCall(y) /\ y.n = call[c].n /\ y.pass = call[c].pass + 1 /\ y.phase = "pending"
        /\ y.req = call[c].req /\ y.todo = call[c].todo /\ y.skipped = call[c].skipped /\ y.got = Silence
    BY <1>1, <1>2 DEF CallOK, IsCall
  <1>5. CallOK(y) /\ Onward(call[c], y)
    BY <1>1, <1>4 DEF CallOK, Onward
  <1> QED
    BY <1>1, <1>3, <1>4, <1>5, OneCall

\* The steps of a call leave its numbers and its request alone.
SameCall(x, y) == y.n = x.n /\ y.pass = x.pass /\ y.req = x.req

LEMMA EndsCall ==
    ASSUME CallsOK, NEW c \in Callers, NEW got, Ends(c, got)
    PROVE  /\ CallStep(c) /\ SameCall(call[c], call'[c])
           /\ call'[c].phase = "ended" /\ call'[c].got = got
  <1>1. CallOK(call[c])
    BY DEF CallsOK
  <1>2. PICK y : y = [call[c] EXCEPT !.phase = "ended", !.got = got, !.snap = {}, !.todo = <<>>,
                                     !.skipped = 0]
    OBVIOUS
  <1>3. call' = [call EXCEPT ![c] = y]
    BY <1>2 DEF Ends, CallsOK
  <1>4. /\ IsCall(y) /\ SameCall(call[c], y) /\ y.phase = "ended" /\ y.todo = <<>>
        /\ y.skipped = 0 /\ y.got = got
    BY <1>1, <1>2 DEF CallOK, IsCall, SameCall
  <1>5. CallOK(y) /\ Onward(call[c], y)
    BY <1>1, <1>4, EmptyTodo DEF CallOK, Onward, SameCall
  <1> QED
    BY <1>3, <1>4, <1>5, OneCall

LEMMA LooksCall ==
    ASSUME CallsOK, NEW c \in Callers, NEW rows, LooksAt(c, rows),
           call[c].phase = "pending", call[c].req.op = "ingest"
    PROVE  /\ CallStep(c) /\ SameCall(call[c], call'[c])
           /\ call'[c].phase = "looked" /\ call'[c].got = call[c].got
           /\ call'[c].skipped + Len(call'[c].todo) = Len(call[c].req.items) =>
                 \A i \in DOMAIN call[c].req.items :
                    call[c].req.items[i] \in KeysOf(rows) \cup Range(call'[c].todo)
  <1>1. CallOK(call[c])
    BY DEF CallsOK
  <1>2. PICK p : p = partition(call[c].req.items, KeysOf(rows), call[c].req.cap)
    OBVIOUS
  <1>3. PICK y : y = [call[c] EXCEPT !.phase = "looked", !.todo = p.todo, !.skipped = p.skipped]
    OBVIOUS
  <1>4. call' = [call EXCEPT ![c] = y]
    BY <1>2, <1>3 DEF LooksAt, CallsOK
  <1>5. /\ IsCall(y) /\ SameCall(call[c], y) /\ y.phase = "looked" /\ y.todo = p.todo
        /\ y.skipped = p.skipped /\ y.got = call[c].got
    BY <1>1, <1>3 DEF CallOK, IsCall, SameCall
  <1>6. call[c].req \in Requests
    BY <1>1 DEF CallOK, Query
  <1>7. /\ call[c].req.cap \in Nat /\ call[c].req.items \in Seq(Range(call[c].req.items))
        /\ \A k \in Range(call[c].req.items) : k = Key(k.text, k.source)
    BY <1>6, KnowledgeAssumption
  <1>8. /\ p.todo \in Seq(Range(p.todo)) /\ p.skipped \in Int
        /\ Range(p.todo) \subseteq Range(call[c].req.items)
        /\ p.skipped + Len(p.todo) = Len(call[c].req.items) =>
              \A i \in DOMAIN call[c].req.items :
                 call[c].req.items[i] \in KeysOf(rows) \cup Range(p.todo)
    <2>1. PICK items, existing, cap :
             items = call[c].req.items /\ existing = KeysOf(rows) /\ cap = call[c].req.cap
      OBVIOUS
    <2>2. items \in Seq(Range(items)) /\ cap \in Nat /\ p = partition(items, existing, cap)
      BY <1>2, <1>7, <2>1
    <2>3. /\ p.todo \in Seq(Range(p.todo)) /\ p.skipped \in Int
          /\ Range(p.todo) \subseteq Range(items)
          /\ p.skipped + Len(p.todo) = Len(items) =>
                \A i \in DOMAIN items : items[i] \in existing \cup Range(p.todo)
      BY <2>2, Partitioned
    <2> QED
      BY <2>1, <2>3
  <1>9. CallOK(y) /\ Onward(call[c], y)
    BY <1>1, <1>5, <1>7, <1>8 DEF CallOK, Onward, SameCall
  <1>10. CallStep(c) /\ call'[c] = y
    BY <1>4, <1>9, OneCall
  <1> QED
    BY <1>5, <1>8, <1>10

LEMMA SeesCall ==
    ASSUME CallsOK, NEW c \in Callers, NEW window, Sees(c, window), Busy(c),
           call[c].req.op # "ingest"
    PROVE  CallStep(c) /\ SameCall(call[c], call'[c]) /\ call'[c].phase = "looked"
  <1>1. CallOK(call[c])
    BY DEF CallsOK
  <1>2. PICK g : g = [call[c].got EXCEPT !.rows = window]
    OBVIOUS
  <1>3. PICK y : y = [call[c] EXCEPT !.phase = "looked", !.got = g]
    OBVIOUS
  <1>4. call' = [call EXCEPT ![c] = y]
    BY <1>1, <1>2, <1>3 DEF Sees, CallsOK, CallOK, IsCall
  <1>5. /\ IsCall(y) /\ SameCall(call[c], y) /\ y.phase = "looked" /\ y.todo = call[c].todo
        /\ y.skipped = call[c].skipped
    BY <1>1, <1>3 DEF CallOK, IsCall, SameCall
  <1>6. CallOK(y) /\ Onward(call[c], y)
    BY <1>1, <1>5 DEF CallOK, Onward, SameCall, Busy
  <1> QED
    BY <1>4, <1>5, <1>6, OneCall

LEMMA SelectsCall ==
    ASSUME CallsOK, NEW c \in Callers, NEW ids, Busy(c), call[c].req.op = "forget",
           call' = [call EXCEPT ![c].phase = "looked", ![c].snap = ids]
    PROVE  /\ CallStep(c) /\ SameCall(call[c], call'[c])
           /\ call'[c].phase = "looked" /\ call'[c].snap = ids
  <1>1. CallOK(call[c])
    BY DEF CallsOK
  <1>3. PICK y : y = [call[c] EXCEPT !.phase = "looked", !.snap = ids]
    OBVIOUS
  <1>4. call' = [call EXCEPT ![c] = y]
    BY <1>3 DEF CallsOK
  <1>5. /\ IsCall(y) /\ SameCall(call[c], y) /\ y.phase = "looked" /\ y.todo = call[c].todo
        /\ y.skipped = call[c].skipped /\ y.snap = ids
    BY <1>1, <1>3 DEF CallOK, IsCall, SameCall
  <1>6. CallOK(y) /\ Onward(call[c], y)
    BY <1>1, <1>5 DEF CallOK, Onward, SameCall, Busy
  <1> QED
    BY <1>4, <1>5, <1>6, OneCall

LEMMA Removed ==
    ASSUME NEW s, s \in Seq(Range(s)), NEW i \in 1 .. Len(s), NEW t, t = RemoveAt(s, i)
    PROVE  /\ t \in Seq(Range(t)) /\ Len(t) = Len(s) - 1
           /\ \A j \in 1 .. i - 1 : t[j] = s[j]
           /\ Range(t) \subseteq Range(s) /\ Range(s) \subseteq Range(t) \cup {s[i]}
  <1> DEFINE S == Range(s)
             u == SubSeq(s, 1, i - 1)
             v == SubSeq(s, i + 1, Len(s))
  <1>1. S = {s[j] : j \in 1 .. Len(s)} /\ s \in Seq(S) /\ Len(s) \in Nat /\ DOMAIN s = 1 .. Len(s)
    BY DEF Range
  <1> HIDE DEF S
  <1>11. PICK n : n = Len(s)
    OBVIOUS
  <1>12. n \in Nat /\ i \in Nat /\ 1 <= i /\ i <= n
    BY <1>1, <1>11
  <1>2. \A j \in 1 .. n : s[j] \in S
    BY <1>1, <1>11
  <1>3. u \in Seq(S) /\ Len(u) = i - 1 /\ \A j \in 1 .. i - 1 : u[j] = s[j]
    <2>1. 1 \in Int /\ i - 1 \in Int /\ \A j \in 1 .. i - 1 : s[j] \in S
      BY <1>12, <1>2
    <2>2. /\ u \in Seq(S) /\ Len(u) = IF 1 <= i - 1 THEN (i - 1) - 1 + 1 ELSE 0
          /\ \A j \in 1 .. (i - 1) - 1 + 1 : u[j] = s[1 + j - 1]
      BY <1>11, <2>1, SubSeqProperties
    <2> QED
      BY <1>12, <2>2
  <1>4. v \in Seq(S) /\ Len(v) = n - i /\ \A j \in 1 .. n - i : v[j] = s[i + j]
    <2>1. i + 1 \in Int /\ n \in Int /\ \A j \in i + 1 .. n : s[j] \in S
      BY <1>12, <1>2
    <2>2. /\ v \in Seq(S) /\ Len(v) = IF i + 1 <= n THEN n - (i + 1) + 1 ELSE 0
          /\ \A j \in 1 .. n - (i + 1) + 1 : v[j] = s[(i + 1) + j - 1]
      BY <1>11, <2>1, SubSeqProperties
    <2> QED
      BY <1>12, <2>2
  <1> HIDE DEF u, v
  <1>5. /\ t \in Seq(S) /\ Len(t) = n - 1
        /\ \A j \in 1 .. i - 1 : t[j] = s[j]
        /\ \A j \in i .. n - 1 : t[j] = s[j + 1]
    <2>1. t = u \o v
      BY DEF RemoveAt, u, v
    <2>2. /\ t \in Seq(S) /\ Len(t) = Len(u) + Len(v)
          /\ \A j \in 1 .. Len(u) + Len(v) : t[j] = IF j <= Len(u) THEN u[j] ELSE v[j - Len(u)]
      <3>1. u \in Seq(S) /\ v \in Seq(S)
        BY <1>3, <1>4
      <3> QED BY <2>1, <3>1, ConcatProperties
    <2>3. Len(t) = n - 1
      BY <1>12, <1>3, <1>4, <2>2
    <2>4. ASSUME NEW j \in 1 .. i - 1 PROVE t[j] = s[j]
      BY <1>12, <1>3, <1>4, <2>2
    <2>5. ASSUME NEW j \in i .. n - 1 PROVE t[j] = s[j + 1]
      <3>1. j \in 1 .. Len(u) + Len(v) /\ ~(j <= Len(u)) /\ j - Len(u) \in 1 .. n - i /\ i + (j - Len(u)) = j + 1
        BY <1>12, <1>3, <1>4
      <3> QED BY <1>4, <2>2, <3>1
    <2> QED
      BY <2>2, <2>3, <2>4, <2>5
  <1>6. DOMAIN t = 1 .. n - 1 /\ t = [j \in DOMAIN t |-> t[j]]
    BY <1>5
  <1>7. t \in Seq(Range(t))
    BY <1>11, <1>12, <1>6, SequenceOf
  <1>8. \A j \in DOMAIN t : t[j] \in S
    BY <1>5
  <1>9. ASSUME NEW j \in 1 .. n, j # i PROVE \E l \in DOMAIN t : t[l] = s[j]
    <2>1. CASE j < i
      <3>1. j \in DOMAIN t /\ j \in 1 .. i - 1
        BY <1>12, <1>6, <2>1
      <3> QED BY <1>5, <3>1
    <2>2. CASE j > i
      <3>1. j - 1 \in DOMAIN t /\ j - 1 \in i .. n - 1 /\ (j - 1) + 1 = j
        BY <1>12, <1>6, <2>2
      <3> QED BY <1>5, <3>1
    <2> QED
      BY <1>9, <2>1, <2>2
  <1>10. Range(t) \subseteq S /\ S \subseteq Range(t) \cup {s[i]}
    BY <1>1, <1>11, <1>8, <1>9 DEF Range
  <1> QED
    BY <1>11, <1>5, <1>7, <1>10 DEF S

LEMMA SkipsCall ==
    ASSUME CallsOK, NEW c \in Callers, NEW i \in 1 .. Len(call[c].todo),
           call[c].phase = "looked",
           call' = [call EXCEPT ![c].todo = RemoveAt(@, i), ![c].skipped = @ + 1]
    PROVE  /\ CallStep(c) /\ SameCall(call[c], call'[c])
           /\ call'[c].phase = "looked" /\ call'[c].got = call[c].got
           /\ call'[c].skipped = call[c].skipped + 1
           /\ Len(call'[c].todo) = Len(call[c].todo) - 1
           /\ \A j \in 1 .. i - 1 : call'[c].todo[j] = call[c].todo[j]
           /\ Range(call[c].todo) \subseteq Range(call'[c].todo) \cup {call[c].todo[i]}
  <1>1. CallOK(call[c])
    BY DEF CallsOK
  <1>2. PICK t : t = RemoveAt(call[c].todo, i)
    OBVIOUS
  <1>3. PICK y : y = [call[c] EXCEPT !.todo = t, !.skipped = call[c].skipped + 1]
    OBVIOUS
  <1>4. call' = [call EXCEPT ![c] = y]
    BY <1>1, <1>2, <1>3 DEF CallsOK, CallOK, IsCall
  <1>5. /\ IsCall(y) /\ SameCall(call[c], y) /\ y.phase = "looked" /\ y.todo = t
        /\ y.skipped = call[c].skipped + 1 /\ y.got = call[c].got
    BY <1>1, <1>3 DEF CallOK, IsCall, SameCall
  <1>6. /\ t \in Seq(Range(t)) /\ Len(t) = Len(call[c].todo) - 1
        /\ \A j \in 1 .. i - 1 : t[j] = call[c].todo[j]
        /\ Range(t) \subseteq Range(call[c].todo)
        /\ Range(call[c].todo) \subseteq Range(t) \cup {call[c].todo[i]}
    BY <1>1, <1>2, Removed DEF CallOK
  <1>7. CallOK(y) /\ Onward(call[c], y)
    BY <1>1, <1>5, <1>6 DEF CallOK, Onward, SameCall
  <1> QED
    BY <1>4, <1>5, <1>6, <1>7, OneCall

-----------------------------------------------------------------------------
(* Drained batches *)

\* An ingest that has looked and will defer nothing: what it does not send is stored.
Counted(c) ==
    /\ call[c].phase = "looked" /\ call[c].req.op = "ingest"
    /\ call[c].skipped + Len(call[c].todo) = Len(call[c].req.items)
    => \A i \in DOMAIN call[c].req.items :
          call[c].req.items[i] \in ever \cup Range(call[c].todo)

Told(c) ==
    Stored(c) /\ Remaining(c) = 0 =>
        \A i \in DOMAIN call[c].req.items : call[c].req.items[i] \in ever

Drained == KeysOf(Rows) \subseteq ever /\ \A c \in Callers : Counted(c) /\ Told(c)

Remembered == ever' = ever \cup KeysOf(Rows')

LEMMA OthersDrained ==
    ASSUME Drained, NEW c \in Callers, CallStep(c), Remembered, Counted(c)', Told(c)'
    PROVE  Drained'
  <1>1. ever \subseteq ever' /\ KeysOf(Rows') \subseteq ever'
    BY DEF Remembered
  <1>2. ASSUME NEW d \in Callers \ {c} PROVE Counted(d)' /\ Told(d)'
    <2>1. call'[d] = call[d]
      BY DEF CallStep
    <2>2. Counted(d) /\ Told(d)
      BY DEF Drained
    <2> QED
      BY <1>1, <2>1, <2>2 DEF Counted, Told, Stored, Remaining
  <1>3. KeysOf(Rows)' = KeysOf(Rows')
    BY DEF KeysOf, KeyOf, Key
  <1> QED
    BY <1>1, <1>2, <1>3 DEF Drained

\* A step that leaves c's call as it is.
LEMMA DrainedStill ==
    ASSUME Drained, NEW c \in Callers, CallStep(c), Remembered, call'[c] = call[c]
    PROVE  Drained'
  <1>1. ever \subseteq ever'
    BY DEF Remembered
  <1>2. Counted(c)' /\ Told(c)'
    BY <1>1 DEF Drained, Counted, Told, Stored, Remaining
  <1> QED
    BY <1>2, OthersDrained

\* A step after which c is not between its look and its end, and was not told
\* that its batch is stored.
LEMMA DrainedElsewhere ==
    ASSUME Drained, NEW c \in Callers, CallStep(c), Remembered,
           ~(call'[c].phase = "looked" /\ call'[c].req.op = "ingest"),
           ~(call'[c].phase = "ended" /\ call'[c].got.is = "stored")
    PROVE  Drained'
  BY OthersDrained DEF Counted, Told, Stored

LEMMA DrainedLook ==
    ASSUME CallsOK, Drained, NEW c \in Callers, Remembered, LooksAt(c, Rows),
           call[c].phase = "pending", call[c].req.op = "ingest"
    PROVE  Drained'
  <1>1. /\ CallStep(c) /\ SameCall(call[c], call'[c]) /\ call'[c].phase = "looked"
        /\ call'[c].skipped + Len(call'[c].todo) = Len(call[c].req.items) =>
                 \A i \in DOMAIN call[c].req.items :
                    call[c].req.items[i] \in KeysOf(Rows) \cup Range(call'[c].todo)
    BY LooksCall
  <1>2. Told(c)'
    BY <1>1 DEF Told, Stored
  <1>3. KeysOf(Rows) \subseteq ever'
    BY DEF Drained, Remembered
  <1>4. Counted(c)'
    BY <1>1, <1>3 DEF Counted, SameCall
  <1> QED
    BY <1>1, <1>2, <1>4, OthersDrained

\* An item that is found to be stored counts as skipped.
LEMMA DrainedSkip ==
    ASSUME CallsOK, Drained, NEW c \in Callers, Remembered, NEW i \in 1 .. Len(call[c].todo),
           call[c].phase = "looked", call[c].todo[i] \in KeysOf(Rows),
           call' = [call EXCEPT ![c].todo = RemoveAt(@, i), ![c].skipped = @ + 1]
    PROVE  Drained'
  <1>1. /\ CallStep(c) /\ SameCall(call[c], call'[c]) /\ call'[c].phase = "looked"
        /\ call'[c].skipped = call[c].skipped + 1
        /\ Len(call'[c].todo) = Len(call[c].todo) - 1
        /\ Range(call[c].todo) \subseteq Range(call'[c].todo) \cup {call[c].todo[i]}
    BY SkipsCall
  <1>2. Told(c)'
    BY <1>1 DEF Told, Stored
  <1>3. call[c].todo[i] \in ever' /\ ever \subseteq ever'
    BY DEF Drained, Remembered
  <1>4. CallOK(call[c]) /\ Counted(c)
    BY DEF CallsOK, Drained
  <1>5. call[c].skipped \in Int /\ Len(call[c].todo) \in Nat
    BY <1>4 DEF CallOK
  <1>6. call'[c].skipped + Len(call'[c].todo) = call[c].skipped + Len(call[c].todo)
    <2>1. call'[c].skipped = call[c].skipped + 1 /\ Len(call'[c].todo) = Len(call[c].todo) - 1
      BY <1>1
    <2>2. \A a \in Int, b \in Nat : (a + 1) + (b - 1) = a + b
      OBVIOUS
    <2> QED
      BY <1>5, <2>1, <2>2
  <1>7. Counted(c)'
    <2> SUFFICES ASSUME call'[c].req.op = "ingest",
                        call'[c].skipped + Len(call'[c].todo) = Len(call'[c].req.items),
                        NEW j \in DOMAIN call'[c].req.items
                 PROVE  call'[c].req.items[j] \in ever' \cup Range(call'[c].todo)
      BY DEF Counted
    <2>1. call'[c].req = call[c].req
      BY <1>1 DEF SameCall
    <2>2. call[c].req.items[j] \in ever \cup Range(call[c].todo)
      BY <1>4, <1>6, <2>1 DEF Counted
    <2> QED
      BY <1>1, <1>3, <2>1, <2>2
  <1> QED
    BY <1>1, <1>2, <1>7, OthersDrained

\* An ingest ends: every item it sent is in the store.
LEMMA DrainedEnd ==
    ASSUME CallsOK, Drained, NEW c \in Callers, Remembered, NEW n \in Int, NEW m \in Int, NEW rows,
           call[c].phase = "looked", call[c].req.op = "ingest",
           Ends(c, Answer("stored", n, m, rows)), n + m = call[c].skipped + Len(call[c].todo),
           Range(call[c].todo) \subseteq KeysOf(Rows')
    PROVE  Drained'
  <1> DEFINE got == Answer("stored", n, m, rows)
  <1>1. CallStep(c) /\ SameCall(call[c], call'[c]) /\ call'[c].phase = "ended" /\ call'[c].got = got
    BY EndsCall
  <1>2. got.n = n /\ got.m = m
    BY DEF Answer
  <1> HIDE DEF got
  <1>3. Counted(c)'
    BY <1>1 DEF Counted
  <1>4. ever \subseteq ever' /\ Range(call[c].todo) \subseteq ever'
    BY DEF Remembered
  <1>5. Told(c)'
    <2> SUFFICES ASSUME Len(call'[c].req.items) - call'[c].got.n - call'[c].got.m = 0,
                        NEW i \in DOMAIN call'[c].req.items
                 PROVE  call'[c].req.items[i] \in ever'
      BY DEF Told, Remaining
    <2>1. call'[c].req = call[c].req
      BY <1>1 DEF SameCall
    <2>2. CallOK(call[c]) /\ Counted(c)
      BY DEF CallsOK, Drained
    <2>3. call[c].req \in Requests
      BY <2>2 DEF CallOK, Query
    <2>4. Len(call[c].req.items) \in Nat
      BY <2>3, KnowledgeAssumption
    <2>5. Len(call[c].req.items) = n + m
      BY <1>1, <1>2, <2>1, <2>4
    <2> QED
      BY <1>4, <2>1, <2>2, <2>5 DEF Counted
  <1> QED
    BY <1>1, <1>3, <1>5, OthersDrained

-----------------------------------------------------------------------------
(* Rows and their ids *)

\* An id minted by an attempt that is over.
Over(id, x) ==
    \/ id[2] < x.n
    \/ id[2] = x.n /\ id[3] < x.pass
    \/ id[2] = x.n /\ id[3] = x.pass /\ x.phase = "ended"
Spent(id) ==
    id[1] \in Callers => id[2] \in Nat /\ id[3] \in Nat /\ Over(id, call[id[1]])

\* An id minted by the attempt c is at.
Own(c, id) == id = <<c, call[c].n, call[c].pass, id[4]>>

AllSpent(rows) == \A r \in rows : Spent(r.id)

\* Rows as tables hold them: learnings, known by their ids.
IsRow(r) == r = [id |-> r.id, text |-> r.text, source |-> r.source]
Proper(rows) ==
    /\ IsFiniteSet(rows)
    /\ \A r \in rows : IsRow(r)
    /\ \A r, s \in rows : r.id = s.id => r = s

LEMMA SpentOn ==
    ASSUME CallsOK, NEW c \in Callers, CallStep(c), NEW id, Spent(id)
    PROVE  Spent(id)'
  <1> SUFFICES ASSUME id[1] \in Callers
               PROVE  id[2] \in Nat /\ id[3] \in Nat /\ Over(id, call'[id[1]])
    BY DEF Spent, Over
  <1>1. id[2] \in Nat /\ id[3] \in Nat /\ Over(id, call[id[1]])
    BY DEF Spent
  <1>2. CASE id[1] # c
    BY <1>1, <1>2 DEF CallStep
  <1>3. CASE id[1] = c
    <2>1. Onward(call[c], call'[c]) /\ CallOK(call[c]) /\ CallOK(call'[c])
      BY DEF CallStep, CallsOK
    <2>2. PICK x, y : x = call[c] /\ y = call'[c]
      OBVIOUS
    <2>3. x.n \in Nat /\ x.pass \in Nat /\ y.n \in Nat /\ y.pass \in Nat
      BY <2>1, <2>2 DEF CallOK
    <2>4. Over(id, x) /\ Onward(x, y)
      BY <1>1, <1>3, <2>1, <2>2
    <2>5. Over(id, y)
      BY <1>1, <2>3, <2>4 DEF Over, Onward
    <2> QED
      BY <1>1, <1>3, <2>2, <2>5
  <1> QED
    BY <1>2, <1>3

LEMMA AllSpentOn ==
    ASSUME CallsOK, NEW c \in Callers, CallStep(c), NEW rows, AllSpent(rows)
    PROVE  \A r \in rows : Spent(r.id)'
  BY SpentOn DEF AllSpent

\* What c minted is spent when its call has ended.
LEMMA OwnSpent ==
    ASSUME CallsOK, NEW c \in Callers, SameCall(call[c], call'[c]), CallStep(c),
           call'[c].phase = "ended", NEW id, Own(c, id)
    PROVE  Spent(id)'
  <1>1. PICK k : id = <<c, call[c].n, call[c].pass, k>>
    BY DEF Own
  <1>2. id[1] = c /\ id[2] = call[c].n /\ id[3] = call[c].pass
    BY <1>1
  <1>3. CallOK(call[c])
    BY DEF CallsOK
  <1> QED
    BY <1>2, <1>3 DEF Spent, Over, SameCall, CallOK

\* An attempt under way has spent nothing.
LEMMA OwnUnspent ==
    ASSUME CallsOK, NEW c \in Callers, Busy(c), NEW id, Own(c, id)
    PROVE  ~Spent(id)
  <1>1. PICK k : id = <<c, call[c].n, call[c].pass, k>>
    BY DEF Own
  <1>2. id[1] = c /\ id[2] = call[c].n /\ id[3] = call[c].pass
    BY <1>1
  <1>3. CallOK(call[c])
    BY DEF CallsOK
  <1> QED
    BY <1>2, <1>3 DEF Spent, Over, CallOK, Busy

LEMMA MintedFields ==
    ASSUME NEW c, NEW k, NEW r, r = MintedRow(c, k)
    PROVE  /\ IsRow(r) /\ Own(c, r.id)
           /\ r.id = <<c, call[c].n, call[c].pass, k>>
           /\ r.text = k.text /\ r.source = k.source
           /\ k = Key(k.text, k.source) => KeyOf(r) = k
  BY DEF MintedRow, IsRow, Own, KeyOf, Key

\* The rows minted of a set of items.
MintedOf(c, K) == {MintedRow(c, k) : k \in K}

LEMMA MintedRows ==
    ASSUME NEW c, NEW K, IsFiniteSet(K), \A k \in K : k = Key(k.text, k.source),
           NEW new, new = MintedOf(c, K)
    PROVE  /\ Proper(new) /\ Cardinality(new) = Cardinality(K) /\ KeysOf(new) = K
           /\ \A r \in new : Own(c, r.id)
  <1> DEFINE f == [k \in K |-> MintedRow(c, k)]
  <1>1. \A k \in K : /\ IsRow(MintedRow(c, k)) /\ Own(c, MintedRow(c, k).id)
                     /\ MintedRow(c, k).id = <<c, call[c].n, call[c].pass, k>>
                     /\ KeyOf(MintedRow(c, k)) = k
    BY MintedFields
  <1>2. f \in Surjection(K, new)
    BY DEF Surjection, MintedOf
  <1>3. \A k, l \in K : MintedRow(c, k).id = MintedRow(c, l).id => k = l
    BY <1>1
  <1>4. f \in Injection(K, new)
    <2>1. f \in [K -> new]
      BY DEF MintedOf
    <2>2. \A k, l \in K : f[k] = f[l] => k = l
      BY <1>3
    <2> QED
      BY <2>1, <2>2 DEF Injection, IsInjective
  <1>5. IsFiniteSet(new) /\ Cardinality(new) = Cardinality(K)
    <2>1. ExistsBijection(K, new)
      BY <1>2, <1>4 DEF ExistsBijection, Bijection
    <2> QED
      BY <2>1, FS_Bijection
  <1>6. \A r, s \in new : r.id = s.id => r = s
    BY <1>3 DEF MintedOf
  <1>7. KeysOf(new) = K
    BY <1>1 DEF KeysOf, MintedOf
  <1> QED
    BY <1>1, <1>5, <1>6, <1>7 DEF Proper, MintedOf

LEMMA TodoFinite ==
    ASSUME NEW s, s \in Seq(Range(s))
    PROVE  IsFiniteSet(Range(s)) /\ Cardinality(Range(s)) \in Nat
  <1>1. Len(s) \in Nat /\ s \in [1 .. Len(s) -> Range(s)]
    BY LenProperties
  <1>2. s \in Surjection(1 .. Len(s), Range(s))
    BY <1>1 DEF Surjection, Range
  <1>3. IsFiniteSet(1 .. Len(s))
    BY <1>1, FS_Interval
  <1> QED
    BY <1>2, <1>3, FS_Surjection, FS_CardinalityType

LEMMA KeysOfUnion == ASSUME NEW A, NEW B PROVE KeysOf(A \cup B) = KeysOf(A) \cup KeysOf(B)
  BY DEF KeysOf

LEMMA ChangedFields ==
    ASSUME NEW req, NEW r, IsRow(r), NEW s, s = Changed(req, r)
    PROVE  IsRow(s) /\ s.id = r.id
  BY DEF Changed, IsRow

\* What an update, a deletion or an insertion leaves is proper.
LEMMA ProperChanged ==
    ASSUME NEW rows, Proper(rows), NEW r \in rows, NEW s, IsRow(s), s.id = r.id
    PROVE  Proper((rows \ {r}) \cup {s}) /\ IdsOf((rows \ {r}) \cup {s}) = IdsOf(rows)
  <1>1. IsFiniteSet((rows \ {r}) \cup {s})
    BY FS_AddElement, FS_RemoveElement DEF Proper
  <1>2. \A p \in (rows \ {r}) \cup {s} : IsRow(p)
    BY DEF Proper
  <1>3. \A p, q \in (rows \ {r}) \cup {s} : p.id = q.id => p = q
    BY DEF Proper
  <1>4. IdsOf((rows \ {r}) \cup {s}) = IdsOf(rows)
    BY DEF IdsOf
  <1> QED
    BY <1>1, <1>2, <1>3, <1>4 DEF Proper

LEMMA ProperSubset ==
    ASSUME NEW rows, Proper(rows), NEW some, some \subseteq rows
    PROVE  Proper(some)
  BY FS_Subset DEF Proper

LEMMA ProperUnion ==
    ASSUME NEW rows, Proper(rows), NEW new, Proper(new), IdsOf(rows) \cap IdsOf(new) = {}
    PROVE  Proper(rows \cup new)
  <1>1. IsFiniteSet(rows \cup new)
    BY FS_Union DEF Proper
  <1> QED
    BY <1>1 DEF Proper, IdsOf

-----------------------------------------------------------------------------
(* Files and the copies of them *)

FileOK(f) ==
    /\ f = Files(f.rows, f.vecs, f.space)
    /\ Proper(f.rows)
    /\ DOMAIN f.vecs = IdsOf(f.rows)
    /\ f.space # Unmarked => \A r \in f.rows : f.vecs[r.id] = Embedded(r, f.space)

LEMMA FileFields ==
    ASSUME NEW rows, NEW vecs, NEW space, NEW f, f = Files(rows, vecs, space)
    PROVE  f.rows = rows /\ f.vecs = vecs /\ f.space = space /\ f = Files(f.rows, f.vecs, f.space)
  BY DEF Files

LEMMA EmptyFiles ==
    /\ FileOK(NoFile) /\ NoFile.rows = {} /\ NoFile.space = Absent
    /\ FileOK([NoFile EXCEPT !.space = Unmarked]) /\ [NoFile EXCEPT !.space = Unmarked].rows = {}
  <1> DEFINE v == [id \in {} |-> Absent]
             f == [NoFile EXCEPT !.space = Unmarked]
  <1>1. NoFile = Files({}, v, Absent)
    BY DEF NoFile
  <1>2. NoFile.rows = {} /\ NoFile.vecs = v /\ NoFile.space = Absent
    BY <1>1, FileFields
  <1> HIDE DEF v
  <1>3. f = Files({}, v, Unmarked)
    <2>1. PICK g : g = NoFile
      OBVIOUS
    <2>2. g = Files({}, v, Absent)
      BY <1>1, <2>1
    <2>3. [g EXCEPT !.space = Unmarked] = Files({}, v, Unmarked)
      BY <2>2 DEF Files
    <2> QED
      BY <2>1, <2>3
  <1>4. f.rows = {} /\ f.vecs = v /\ f.space = Unmarked
    <2> HIDE DEF f
    <2> QED BY <1>3, FileFields
  <1>5. DOMAIN v = {} /\ IdsOf({}) = {}
    BY DEF IdsOf, v
  <1>6. Proper({})
    BY FS_EmptySet DEF Proper
  <1> HIDE DEF f
  <1>7. FileOK(NoFile)
    BY <1>1, <1>2, <1>5, <1>6 DEF FileOK
  <1>8. FileOK(f)
    BY <1>3, <1>4, <1>5, <1>6 DEF FileOK
  <1> QED
    BY <1>2, <1>4, <1>7, <1>8 DEF f

\* The row of an id.
LEMMA RowOfId ==
    ASSUME NEW rows, Proper(rows), NEW r \in rows
    PROVE  (CHOOSE s \in rows : s.id = r.id) = r
  BY DEF Proper

\* _open: the copy holds the rows of the file, embedded by the model that opens it.
LEMMA OpenedOK ==
    ASSUME NEW f, FileOK(f), NEW c \in Callers, NEW g, g = Opened(f, Model[c])
    PROVE  /\ FileOK(g) /\ g.rows = f.rows /\ g.space = Model[c]
           /\ g.space # Unmarked /\ g # NoFile
  <1> DEFINE m == Model[c]
  <1>1. m # Absent /\ m # Unmarked
    BY KnowledgeAssumption
  <1>2. CASE Migrates(f, m)
    <2> DEFINE v == [id \in IdsOf(f.rows) |-> Embedded(CHOOSE r \in f.rows : r.id = id, m)]
    <2>1. g = Files(f.rows, v, m)
      BY <1>2 DEF Opened, migrate_dim
    <2>2. g.rows = f.rows /\ g.vecs = v /\ g.space = m /\ g = Files(g.rows, g.vecs, g.space)
      BY <2>1, FileFields
    <2>3. DOMAIN v = IdsOf(f.rows)
      OBVIOUS
    <2>4. ASSUME NEW r \in f.rows PROVE v[r.id] = Embedded(r, m)
      <3>1. (CHOOSE s \in f.rows : s.id = r.id) = r
        BY RowOfId DEF FileOK
      <3>2. r.id \in IdsOf(f.rows)
        BY DEF IdsOf
      <3> QED
        BY <3>1, <3>2
    <2> HIDE DEF v
    <2> QED
      BY <1>1, <2>2, <2>3, <2>4, EmptyFiles DEF FileOK
  <1>3. CASE ~Migrates(f, m)
    <2>1. g = [f EXCEPT !.space = m]
      BY <1>3 DEF Opened
    <2>2. f = Files(f.rows, f.vecs, f.space)
      BY DEF FileOK
    <2>3. g = Files(f.rows, f.vecs, m)
      BY <2>1, <2>2 DEF Files
    <2>4. g.rows = f.rows /\ g.vecs = f.vecs /\ g.space = m /\ g = Files(g.rows, g.vecs, g.space)
      BY <2>3, FileFields
    <2>5. f.rows = {} \/ f.space = m
      BY <1>3 DEF Migrates, Fresh
    <2> QED
      BY <1>1, <2>4, <2>5, EmptyFiles DEF FileOK
  <1> QED
    BY <1>2, <1>3

\* The insertion of rows the copy does not have.
LEMMA WithItemsOK ==
    ASSUME CallsOK, NEW c \in Callers, Busy(c), call[c].req.op = "ingest",
           NEW f, FileOK(f), AllSpent(f.rows), f.space = Model[c],
           NEW g, g = WithItems(c, f),
           NEW K, K = Range(call[c].todo) \ KeysOf(f.rows)
    PROVE  /\ FileOK(g) /\ g.rows = f.rows \cup MintedOf(c, K)
           /\ \A r \in g.rows : Spent(r.id) \/ Own(c, r.id)
  <1> DEFINE new == MintedOf(c, K)
             v == [id \in IdsOf(f.rows \cup new) |->
                     IF id \in IdsOf(new)
                     THEN Embedded(CHOOSE r \in new : r.id = id, Model[c])
                     ELSE f.vecs[id]]
  <1>1. g = Files(f.rows \cup new, v, f.space)
    BY DEF WithItems, MintedOf
  <1>2. g.rows = f.rows \cup new /\ g.vecs = v /\ g.space = f.space /\ g = Files(g.rows, g.vecs, g.space)
    BY <1>1, FileFields
  <1>3. CallOK(call[c])
    BY DEF CallsOK
  <1>4. IsFiniteSet(K) /\ \A k \in K : k = Key(k.text, k.source)
    <2>1. IsFiniteSet(Range(call[c].todo))
      BY <1>3, TodoFinite DEF CallOK
    <2>2. K \in SUBSET Range(call[c].todo)
      OBVIOUS
    <2>3. IsFiniteSet(K)
      BY <2>1, <2>2, FS_Subset
    <2> QED
      BY <1>3, <2>3 DEF CallOK
  <1>5. Proper(new) /\ \A r \in new : Own(c, r.id)
    BY <1>4, MintedRows
  <1>6. \A r \in f.rows, s \in new : r.id # s.id
    BY <1>5, OwnUnspent DEF AllSpent
  <1> HIDE DEF new
  <1>7. IdsOf(f.rows) \cap IdsOf(new) = {}
    BY <1>6 DEF IdsOf
  <1>8. Proper(f.rows \cup new)
    BY <1>5, <1>7, ProperUnion DEF FileOK
  <1>9. DOMAIN v = IdsOf(f.rows \cup new)
    OBVIOUS
  <1>10. ASSUME NEW r \in f.rows \cup new, f.space # Unmarked
         PROVE  v[r.id] = Embedded(r, f.space)
    <2>1. r.id \in IdsOf(f.rows \cup new)
      BY DEF IdsOf
    <2>2. CASE r \in new
      <3>1. (CHOOSE s \in new : s.id = r.id) = r /\ r.id \in IdsOf(new)
        BY <1>5, <2>2, RowOfId DEF IdsOf
      <3> QED
        BY <2>1, <3>1
    <2>3. CASE r \in f.rows
      <3>1. r.id \notin IdsOf(new) /\ f.vecs[r.id] = Embedded(r, f.space)
        BY <1>6, <1>10, <2>3 DEF IdsOf, FileOK
      <3> QED
        BY <2>1, <3>1
    <2> QED
      BY <2>2, <2>3
  <1> HIDE DEF v
  <1>11. FileOK(g)
    BY <1>2, <1>8, <1>9, <1>10 DEF FileOK
  <1> QED
    BY <1>2, <1>5, <1>11 DEF new, AllSpent

\* The change of one row, which is embedded again when its text is another.
LEMMA WithChangeOK ==
    ASSUME NEW c \in Callers, NEW f, FileOK(f), f.space = Model[c], NEW r \in f.rows,
           NEW g, g = WithChange(c, f, r), NEW s, s = Changed(call[c].req, r)
    PROVE  FileOK(g) /\ g.rows = (f.rows \ {r}) \cup {s} /\ IdsOf(g.rows) = IdsOf(f.rows)
  <1> DEFINE v == IF ReEmbeds(c, r) THEN [f.vecs EXCEPT ![r.id] = Embedded(s, Model[c])] ELSE f.vecs
  <1>1. g = Files((f.rows \ {r}) \cup {s}, v, f.space)
    BY DEF WithChange
  <1>2. g.rows = (f.rows \ {r}) \cup {s} /\ g.vecs = v /\ g.space = f.space /\ g = Files(g.rows, g.vecs, g.space)
    BY <1>1, FileFields
  <1>3. IsRow(s) /\ s.id = r.id
    BY ChangedFields DEF FileOK, Proper
  <1>4. Proper(g.rows) /\ IdsOf(g.rows) = IdsOf(f.rows)
    BY <1>2, <1>3, ProperChanged DEF FileOK
  <1>5. DOMAIN v = IdsOf(f.rows) /\ r.id \in IdsOf(f.rows)
    BY DEF FileOK, IdsOf
  <1>6. ASSUME NEW p \in g.rows, f.space # Unmarked PROVE v[p.id] = Embedded(p, f.space)
    <2>1. \A q \in f.rows : f.vecs[q.id] = Embedded(q, f.space)
      BY <1>6 DEF FileOK
    <2>2. CASE p = s
      <3>1. CASE ReEmbeds(c, r)
        BY <1>3, <1>5, <2>2, <3>1
      <3>2. CASE ~ReEmbeds(c, r)
        <4>1. s.text = r.text
          BY <3>2 DEF ReEmbeds
        <4>2. v[p.id] = Embedded(r, f.space)
          BY <1>3, <2>1, <2>2, <3>2
        <4> QED
          BY <2>2, <4>1, <4>2 DEF Embedded
      <3> QED
        BY <3>1, <3>2
    <2>3. CASE p # s
      <3>1. p \in f.rows /\ p # r
        BY <1>2, <2>3
      <3>2. p.id # r.id
        BY <3>1 DEF FileOK, Proper
      <3>3. p.id \in DOMAIN f.vecs
        BY <3>1 DEF FileOK, IdsOf
      <3>4. v[p.id] = f.vecs[p.id]
        BY <3>2, <3>3
      <3> QED
        BY <2>1, <3>1, <3>4
    <2> QED
      BY <2>2, <2>3
  <1> HIDE DEF v
  <1> QED
    BY <1>2, <1>4, <1>5, <1>6 DEF FileOK

LEMMA WithoutRowsOK ==
    ASSUME NEW f, FileOK(f), NEW gone, NEW g, g = WithoutRows(f, gone)
    PROVE  FileOK(g) /\ g.rows = f.rows \ gone
  <1> DEFINE v == [id \in IdsOf(f.rows \ gone) |-> f.vecs[id]]
  <1>1. g = Files(f.rows \ gone, v, f.space)
    BY DEF WithoutRows
  <1>2. g.rows = f.rows \ gone /\ g.vecs = v /\ g.space = f.space /\ g = Files(g.rows, g.vecs, g.space)
    BY <1>1, FileFields
  <1>3. Proper(f.rows \ gone)
    BY ProperSubset DEF FileOK
  <1>4. DOMAIN v = IdsOf(f.rows \ gone)
    OBVIOUS
  <1>5. \A r \in f.rows \ gone : v[r.id] = f.vecs[r.id]
    BY DEF IdsOf
  <1> HIDE DEF v
  <1> QED
    BY <1>2, <1>3, <1>4, <1>5 DEF FileOK

-----------------------------------------------------------------------------
(* The store in one file *)

IsWork(w) ==
    w = [pc |-> w.pc, then |-> w.then, base |-> w.base, next |-> w.next, tries |-> w.tries,
         told |-> w.told]

\* A copy that is to be saved as the outcome of a write.
IsSaving(w) == w.pc = "save" \/ (w.pc \in {"truncate", "fill"} /\ w.then = "save")

MintedBy(c, x, K) ==
    {[id |-> <<c, x.n, x.pass, k>>, text |-> k.text, source |-> k.source] : k \in K}

\* What w, made for call x of c, makes of the rows it loaded, and what c will be
\* told.
IngestEffect(c, x, w) ==
    LET new == Range(x.todo) \ KeysOf(w.base.rows)
    IN  /\ x.req.op = "ingest" /\ x.phase = "looked"
        /\ w.next.rows = w.base.rows \cup MintedBy(c, x, new)
        /\ w.told = Answer("stored", Cardinality(new),
                           x.skipped + Len(x.todo) - Cardinality(new), {})
UpdateEffect(x, w) ==
    /\ x.req.op = "update" /\ x.phase = "pending"
    /\ \/ /\ {r \in w.base.rows : r.id = x.req.id} = {}
          /\ w.next.rows = w.base.rows
          /\ w.told = Answer("absent", 0, 0, {})
       \/ \E r \in {r \in w.base.rows : r.id = x.req.id} :
             /\ ~Clashes(x.req, r, w.base.rows)
             /\ w.next.rows = (w.base.rows \ {r}) \cup {Changed(x.req, r)}
             /\ w.told = Answer("updated", 0, 0, {Changed(x.req, r)})
ForgetEffect(x, w) ==
    LET gone == Selected(x.req, w.base.rows)
    IN  /\ x.req.op = "forget" /\ x.phase = "looked"
        /\ x.snap = IdsOf(gone)
        /\ w.next.rows = w.base.rows \ gone
        /\ w.told = Answer("deleted", Cardinality(gone), 0, {})
Effect(c, x, w) == IngestEffect(c, x, w) \/ UpdateEffect(x, w) \/ ForgetEffect(x, w)

\* A copy fits the call it is made for.
Fits(c, x, w) ==
    /\ IsWork(w) /\ FileOK(w.next)
    /\ w.pc \in {"rest", "answer", "load", "save", "truncate", "fill"}
    /\ w.pc # "rest" => x.phase \in {"pending", "looked"}
    /\ w.pc = "answer" => x.phase = "looked"
    /\ w.pc \in {"truncate", "fill"} => w.then \in {"save", "answer"}
    /\ w.pc \in {"truncate", "fill"} /\ w.then = "answer" => x.phase = "looked"
    /\ w.pc = "load" =>
          \/ x.req.op \in {"ingest", "forget"} /\ x.phase = "looked"
          \/ x.req.op = "update" /\ x.phase = "pending"
    /\ IF IsSaving(w) THEN Effect(c, x, w)
                      ELSE w.next # NoFile => w.next.rows = w.base.rows

WorkOK(c) ==
    /\ Fits(c, call[c], work[c])
    /\ work[c].pc \in {"truncate", "fill"} => store = "file"
    /\ \A r \in work[c].next.rows : Spent(r.id) \/ (IsSaving(work[c]) /\ Own(c, r.id))

FileInv ==
    /\ work = [c \in Callers |-> work[c]]
    /\ FileOK(file) /\ AllSpent(file.rows)
    /\ \A c \in Callers : WorkOK(c)

\* The step concerns c's copy alone.
WorkStep(c) ==
    /\ work' = [d \in Callers |-> work'[d]]
    /\ \A d \in Callers \ {c} : work'[d] = work[d]

\* What a step of c through the file leaves.
FileStep(c) ==
    /\ CallStep(c) /\ WorkStep(c) /\ WorkOK(c)'
    /\ FileOK(file)' /\ AllSpent(file.rows)'
    /\ Drained'

LEMMA FileStepKeeps ==
    ASSUME CallsOK, FileInv, NEW c \in Callers, FileStep(c), store' = store
    PROVE  CallsOK' /\ Drained' /\ FileInv'
  <1>1. ASSUME NEW d \in Callers PROVE CallOK(call'[d])
    BY DEF CallsOK, FileStep, CallStep
  <1>2. CallsOK'
    BY <1>1 DEF CallsOK, FileStep, CallStep
  <1>3. ASSUME NEW d \in Callers \ {c} PROVE WorkOK(d)'
    <2>1. call'[d] = call[d] /\ work'[d] = work[d]
      BY DEF FileStep, CallStep, WorkStep
    <2>2. WorkOK(d)
      BY DEF FileInv
    <2>3. \A r \in work[d].next.rows : Spent(r.id)' \/ (IsSaving(work[d]) /\ Own(d, r.id))
      BY <2>2, SpentOn DEF WorkOK, FileStep
    <2>4. \A r \in work[d].next.rows : Own(d, r.id) => Own(d, r.id)'
      BY <2>1 DEF Own
    <2>5. Fits(d, call'[d], work'[d])
      BY <2>1, <2>2 DEF WorkOK
    <2>6. \A r \in work'[d].next.rows : Spent(r.id)' \/ (IsSaving(work'[d]) /\ Own(d, r.id)')
      BY <2>1, <2>3, <2>4
    <2>7. work'[d].pc \in {"truncate", "fill"} => store' = "file"
      BY <2>1, <2>2 DEF WorkOK
    <2> QED
      BY <2>5, <2>6, <2>7 DEF WorkOK
  <1>4. FileInv'
    BY <1>3 DEF FileInv, FileStep, WorkStep
  <1> QED
    BY <1>2, <1>4 DEF FileStep

LEMMA OneWork ==
    ASSUME FileInv, NEW c \in Callers, NEW w, work' = [work EXCEPT ![c] = w]
    PROVE  WorkStep(c) /\ work'[c] = w
  BY DEF FileInv, WorkStep

LEMMA RestFields ==
    /\ IsWork(Rest) /\ Rest.pc = "rest" /\ Rest.then = "rest" /\ Rest.base = NoFile /\ Rest.next = NoFile
  BY DEF IsWork, Rest

\* A copy that is nothing yet, or nothing any more.
LEMMA BlankWork ==
    ASSUME NEW c \in Callers, work'[c].next = NoFile, ~IsSaving(work'[c]),
           Fits(c, call'[c], work'[c]), work'[c].pc \notin {"truncate", "fill"}
    PROVE  WorkOK(c)'
  <1>1. NoFile.rows = {}
    BY EmptyFiles
  <1> QED
    BY <1>1 DEF WorkOK

LEMMA Rests ==
    ASSUME FileInv, NEW c \in Callers, work' = [work EXCEPT ![c] = Rest]
    PROVE  WorkStep(c) /\ WorkOK(c)'
  <1>1. WorkStep(c) /\ work'[c] = Rest
    BY OneWork
  <1>2. ~IsSaving(Rest)
    BY RestFields DEF IsSaving
  <1>3. Fits(c, call'[c], Rest)
    BY <1>2, RestFields, EmptyFiles DEF Fits
  <1> QED
    BY <1>1, <1>2, <1>3, RestFields, BlankWork

\* What a step on the file may take for granted.
OnFile ==
    /\ CallsOK /\ Drained /\ FileInv
    /\ store # "postgres" /\ store' = store /\ Remembers

LEMMA FileRows ==
    ASSUME OnFile
    PROVE  Rows = file.rows /\ Rows' = file'.rows /\ Remembered
  BY DEF OnFile, Rows, Remembered, Remembers

LEMMA SameFile ==
    ASSUME OnFile, NEW c \in Callers, CallStep(c), file'.rows = file.rows, FileOK(file')
    PROVE  FileOK(file)' /\ AllSpent(file.rows)'
  <1>1. AllSpent(file.rows)
    BY DEF OnFile, FileInv
  <1>2. \A r \in file.rows : Spent(r.id)'
    BY <1>1, AllSpentOn DEF OnFile
  <1> QED
    BY <1>2 DEF AllSpent

LEMMA ReadsOK ==
    ASSUME OnFile, NEW c \in Callers, Reads(c), CallStep(c), call'[c].phase = "looked"
    PROVE  WorkStep(c) /\ WorkOK(c)'
  <1>1. PICK g : g = IF Migrates(file, Model[c]) THEN Opened(file, Model[c]) ELSE NoFile
    OBVIOUS
  <1>2. PICK w : w = [Rest EXCEPT !.pc = "answer", !.base = file, !.next = g]
    OBVIOUS
  <1>3. work' = [work EXCEPT ![c] = w]
    BY <1>1, <1>2 DEF Reads
  <1>4. IsWork(w) /\ w.pc = "answer" /\ w.then = "rest" /\ w.base = file /\ w.next = g
    BY <1>2, RestFields DEF IsWork
  <1>5. FileOK(file) /\ AllSpent(file.rows)
    BY DEF OnFile, FileInv
  <1>6. FileOK(g) /\ ((g = NoFile /\ g.rows = {}) \/ g.rows = file.rows)
    BY <1>1, <1>5, OpenedOK, EmptyFiles
  <1>7. \A r \in g.rows : Spent(r.id)'
    BY <1>5, <1>6, AllSpentOn DEF OnFile
  <1>8. ~IsSaving(w)
    BY <1>4 DEF IsSaving
  <1>9. Fits(c, call'[c], w)
    BY <1>4, <1>6, <1>8 DEF Fits
  <1>10. WorkStep(c) /\ work'[c] = w
    BY <1>3, OneWork DEF OnFile
  <1> QED
    BY <1>4, <1>7, <1>9, <1>10 DEF WorkOK

LEMMA existing_keysStep ==
    ASSUME OnFile, NEW c \in Callers, existing_keys(c)
    PROVE  FileStep(c)
  <1>1. /\ call[c].phase = "pending" /\ call[c].req.op = "ingest" /\ LooksAt(c, file.rows)
        /\ Reads(c) /\ file' = file
    BY DEF existing_keys
  <1>2. CallStep(c) /\ call'[c].phase = "looked"
    BY <1>1, LooksCall DEF OnFile
  <1>3. Drained'
    BY <1>1, FileRows, DrainedLook DEF OnFile
  <1>4. FileOK(file')
    BY <1>1 DEF OnFile, FileInv
  <1>5. FileOK(file)' /\ AllSpent(file.rows)'
    BY <1>1, <1>2, <1>4, SameFile
  <1> QED
    BY <1>1, <1>2, <1>3, <1>5, ReadsOK DEF FileStep

\* query and list_learnings.
LEMMA ReadStep ==
    ASSUME OnFile, NEW c \in Callers, query(c) \/ list_learnings(c)
    PROVE  FileStep(c)
  <1>1. /\ call[c].phase = "pending" /\ call[c].req.op \in {"query", "list"}
        /\ \E window : Sees(c, window)
        /\ Reads(c) /\ file' = file
    BY DEF query, list_learnings
  <1>2. CallStep(c) /\ SameCall(call[c], call'[c]) /\ call'[c].phase = "looked"
    BY <1>1, SeesCall DEF OnFile, Busy
  <1>3. Drained'
    BY <1>1, <1>2, FileRows, DrainedElsewhere DEF OnFile, SameCall
  <1>4. FileOK(file')
    BY <1>1 DEF OnFile, FileInv
  <1>5. FileOK(file)' /\ AllSpent(file.rows)'
    BY <1>1, <1>2, <1>4, SameFile
  <1> QED
    BY <1>1, <1>2, <1>3, <1>5, ReadsOK DEF FileStep

LEMMA WriteBackRows ==
    ASSUME OnFile, NEW c \in Callers, At(c, "answer"), WriteBack(c)
    PROVE  file'.rows = file.rows /\ FileOK(file')
  <1>1. Fits(c, call[c], work[c]) /\ FileOK(file)
    BY DEF OnFile, FileInv, WorkOK
  <1>2. ~IsSaving(work[c])
    BY DEF IsSaving, At
  <1> QED
    BY <1>1, <1>2 DEF WriteBack, Owed, Fits

LEMMA FindsCall ==
    ASSUME CallsOK, NEW c \in Callers, Finds(c)
    PROVE  /\ CallStep(c) /\ SameCall(call[c], call'[c]) /\ call'[c].phase = "ended"
           /\ call'[c].got.is = "found" /\ call[c].req.op \in {"query", "list"}
           /\ call[c].phase = "looked"
  <1>1. /\ \E rows : Ends(c, Answer("found", 0, 0, rows))
        /\ call[c].req.op \in {"query", "list"} /\ call[c].phase = "looked"
    BY DEF Finds
  <1>2. PICK rows : Ends(c, Answer("found", 0, 0, rows))
    BY <1>1
  <1>3. Answer("found", 0, 0, rows).is = "found"
    BY DEF Answer
  <1> QED
    BY <1>1, <1>2, <1>3, EndsCall

LEMMA AnsweredStep ==
    ASSUME OnFile, NEW c \in Callers, Answered(c)
    PROVE  FileStep(c)
  <1>1. At(c, "answer") /\ file'.rows = file.rows /\ FileOK(file')
    BY WriteBackRows DEF Answered
  <1>2. Fits(c, call[c], work[c]) /\ CallOK(call[c])
    BY DEF OnFile, FileInv, WorkOK, CallsOK
  <1>3. call[c].phase = "looked"
    BY <1>1, <1>2 DEF Fits, At
  <1>4. CASE Finds(c) /\ work' = [work EXCEPT ![c] = Rest]
    <2>1. CallStep(c) /\ call'[c].phase = "ended" /\ call'[c].got.is = "found"
      BY <1>4, FindsCall DEF OnFile
    <2>2. Drained'
      BY <2>1, FileRows, DrainedElsewhere DEF OnFile
    <2> QED
      BY <1>1, <1>4, <2>1, <2>2, SameFile, Rests DEF FileStep, OnFile
  <1>5. CASE /\ call[c].req.op = "ingest" /\ call[c].todo = <<>>
             /\ Ends(c, Answer("stored", 0, call[c].skipped, {}))
             /\ work' = [work EXCEPT ![c] = Rest]
    <2>1. CallStep(c)
      BY <1>5, EndsCall DEF OnFile
    <2>2. call[c].skipped \in Int /\ Range(call[c].todo) = {} /\ Len(call[c].todo) = 0
      BY <1>2, <1>5, EmptyTodo DEF CallOK
    <2>3. Drained'
      <3>1. 0 + call[c].skipped = call[c].skipped + Len(call[c].todo) /\ 0 \in Int
        BY <2>2
      <3> QED
        BY <1>3, <1>5, <2>2, <3>1, FileRows, DrainedEnd DEF OnFile
    <2> QED
      BY <1>1, <1>5, <2>1, <2>3, SameFile, Rests DEF FileStep, OnFile
  <1>6. CASE /\ call[c].req.op = "ingest" /\ call[c].todo # <<>>
             /\ work' = [work EXCEPT ![c] = [Rest EXCEPT !.pc = "load"]]
             /\ UNCHANGED call
    <2>1. CallStep(c) /\ call'[c] = call[c]
      BY <1>6, NoCallChange DEF OnFile
    <2>2. Drained'
      BY <2>1, FileRows, DrainedStill DEF OnFile
    <2>3. PICK w : w = [Rest EXCEPT !.pc = "load"]
      OBVIOUS
    <2>4. WorkStep(c) /\ work'[c] = w
      BY <1>6, <2>3, OneWork DEF OnFile
    <2>5. IsWork(w) /\ w.pc = "load" /\ w.next = NoFile /\ ~IsSaving(w)
      BY <2>3, RestFields DEF IsWork, IsSaving
    <2>6. Fits(c, call'[c], w)
      BY <1>3, <1>6, <2>1, <2>5, EmptyFiles DEF Fits
    <2>7. WorkOK(c)'
      BY <2>4, <2>5, <2>6, BlankWork
    <2> QED
      BY <1>1, <2>1, <2>2, <2>4, <2>7, SameFile DEF FileStep
  <1> QED
    BY <1>4, <1>5, <1>6 DEF Answered

\* An attempt has made its copy.
LEMMA LoadsOK ==
    ASSUME OnFile, NEW c \in Callers, NEW next, NEW told, Loads(c, next, told), CallStep(c),
           call'[c].phase \in {"pending", "looked"}, FileOK(next),
           \A r \in next.rows : Spent(r.id)' \/ Own(c, r.id)',
           \A w : w.base = file /\ w.next = next /\ w.told = told => Effect(c, call'[c], w)
    PROVE  WorkStep(c) /\ WorkOK(c)'
  <1>1. PICK w : w = [work[c] EXCEPT !.pc = "save", !.base = file, !.next = next, !.told = told]
    OBVIOUS
  <1>2. work' = [work EXCEPT ![c] = w]
    BY <1>1 DEF Loads, OnFile, FileInv
  <1>3. IsWork(work[c])
    BY DEF OnFile, FileInv, WorkOK, Fits
  <1>4. IsWork(w) /\ w.pc = "save" /\ w.base = file /\ w.next = next /\ w.told = told
    BY <1>1, <1>3 DEF IsWork
  <1>5. IsSaving(w) /\ Effect(c, call'[c], w)
    BY <1>4 DEF IsSaving
  <1>6. Fits(c, call'[c], w)
    BY <1>4, <1>5 DEF Fits
  <1>7. WorkStep(c) /\ work'[c] = w
    BY <1>2, OneWork DEF OnFile
  <1> QED
    BY <1>4, <1>5, <1>6, <1>7 DEF WorkOK

LEMMA OpenedCopy ==
    ASSUME OnFile, NEW c \in Callers, NEW f, f = Opened(file, Model[c])
    PROVE  FileOK(f) /\ f.rows = file.rows /\ f.space = Model[c] /\ AllSpent(f.rows)
  BY OpenedOK DEF OnFile, FileInv

\* Where an attempt begins.
LEMMA WritingCall ==
    ASSUME OnFile, NEW c \in Callers, NEW op \in {"update", "forget"}, Writing(c, op)
    PROVE  /\ call[c].req.op = op /\ Busy(c)
           /\ op = "update" => call[c].phase = "pending"
  <1>1. Fits(c, call[c], work[c])
    BY DEF OnFile, FileInv, WorkOK
  <1> QED
    BY <1>1 DEF Writing, At, Fits, Busy

LEMMA LoadIngestStep ==
    ASSUME OnFile, NEW c \in Callers, LoadIngest(c)
    PROVE  FileStep(c)
  <1>1. PICK f : f = Opened(file, Model[c])
    OBVIOUS
  <1>2. /\ At(c, "load") /\ call[c].req.op = "ingest" /\ file' = file /\ call' = call
        /\ Loads(c, WithItems(c, f), StoredAnswer(c, f))
    BY <1>1 DEF LoadIngest
  <1>3. Fits(c, call[c], work[c])
    BY DEF OnFile, FileInv, WorkOK
  <1>4. call[c].phase = "looked" /\ Busy(c)
    BY <1>2, <1>3 DEF Fits, At, Busy
  <1>5. CallStep(c) /\ call'[c] = call[c]
    BY <1>2, NoCallChange DEF OnFile
  <1>6. FileOK(f) /\ f.rows = file.rows /\ f.space = Model[c] /\ AllSpent(f.rows)
    BY <1>1, OpenedCopy
  <1>7. PICK g, told, K : /\ g = WithItems(c, f) /\ told = StoredAnswer(c, f)
                          /\ K = Range(call[c].todo) \ KeysOf(f.rows)
    OBVIOUS
  <1>8. /\ FileOK(g) /\ g.rows = f.rows \cup MintedOf(c, K)
        /\ \A r \in g.rows : Spent(r.id) \/ Own(c, r.id)
    BY <1>2, <1>4, <1>6, <1>7, WithItemsOK DEF OnFile
  <1>9. \A r \in g.rows : Spent(r.id)' \/ Own(c, r.id)'
    BY <1>5, <1>8, SpentOn DEF OnFile, Own
  <1>10. MintedOf(c, K) = MintedBy(c, call'[c], K)
    BY <1>5 DEF MintedOf, MintedBy, MintedRow
  <1>11. ASSUME NEW w, w.base = file, w.next = g, w.told = told
         PROVE  Effect(c, call'[c], w)
    <2>1. Range(call'[c].todo) \ KeysOf(w.base.rows) = K
      BY <1>5, <1>6, <1>7, <1>11
    <2>2. told = Answer("stored", Cardinality(K), call'[c].skipped + Len(call'[c].todo) - Cardinality(K), {})
      BY <1>5, <1>7 DEF StoredAnswer
    <2>3. IngestEffect(c, call'[c], w)
      BY <1>2, <1>4, <1>5, <1>6, <1>8, <1>10, <1>11, <2>1, <2>2 DEF IngestEffect
    <2> QED
      BY <2>3 DEF Effect
  <1>12. WorkStep(c) /\ WorkOK(c)'
    BY <1>2, <1>4, <1>5, <1>7, <1>8, <1>9, <1>11, LoadsOK
  <1>13. Drained'
    BY <1>5, FileRows, DrainedStill DEF OnFile
  <1>14. FileOK(file)' /\ AllSpent(file.rows)'
    BY <1>2, <1>5, SameFile DEF OnFile, FileInv
  <1> QED
    BY <1>5, <1>12, <1>13, <1>14 DEF FileStep

LEMMA EndsUnstored ==
    ASSUME OnFile, NEW c \in Callers, NEW got, Ends(c, got), got.is # "stored"
    PROVE  CallStep(c) /\ Drained'
  <1>1. CallStep(c) /\ call'[c].phase = "ended" /\ call'[c].got = got
    BY EndsCall DEF OnFile
  <1> QED
    BY <1>1, FileRows, DrainedElsewhere DEF OnFile

LEMMA update_learningStep ==
    ASSUME OnFile, NEW c \in Callers, update_learning(c)
    PROVE  FileStep(c)
  <1>1. PICK f, req : f = Opened(file, Model[c]) /\ req = call[c].req
    OBVIOUS
  <1> DEFINE mine == {r \in f.rows : r.id = req.id}
  <1>2. /\ Writing(c, "update") /\ file' = file
        /\ \/ /\ mine = {} /\ Loads(c, f, Answer("absent", 0, 0, {})) /\ call' = call
           \/ \E r \in mine :
                \/ /\ Clashes(req, r, f.rows)
                   /\ Ends(c, Answer("duplicate", 0, 0, {}))
                   /\ work' = [work EXCEPT ![c] = Rest]
                \/ /\ ~Clashes(req, r, f.rows)
                   /\ Loads(c, WithChange(c, f, r), Answer("updated", 0, 0, {Changed(req, r)}))
                   /\ call' = call
    BY <1>1 DEF update_learning
  <1>3. req.op = "update" /\ call[c].phase = "pending"
    BY <1>1, <1>2, WritingCall
  <1>4. FileOK(f) /\ f.rows = file.rows /\ f.space = Model[c] /\ AllSpent(f.rows)
    BY <1>1, OpenedCopy
  <1>5. ASSUME CallStep(c) PROVE FileOK(file)' /\ AllSpent(file.rows)'
    BY <1>2, <1>5, SameFile DEF OnFile, FileInv
  <1>6. CASE mine = {} /\ Loads(c, f, Answer("absent", 0, 0, {})) /\ call' = call
    <2>1. CallStep(c) /\ call'[c] = call[c]
      BY <1>6, NoCallChange DEF OnFile
    <2>2. \A r \in f.rows : Spent(r.id)' \/ Own(c, r.id)'
      BY <1>4, <2>1, AllSpentOn DEF OnFile
    <2>3. ASSUME NEW w, w.base = file, w.next = f, w.told = Answer("absent", 0, 0, {})
          PROVE  Effect(c, call'[c], w)
      <3>1. {r \in w.base.rows : r.id = call'[c].req.id} = {}
        BY <1>1, <1>4, <1>6, <2>1, <2>3
      <3>2. UpdateEffect(call'[c], w)
        BY <1>1, <1>3, <1>4, <2>1, <2>3, <3>1 DEF UpdateEffect
      <3> QED
        BY <3>2 DEF Effect
    <2>4. WorkStep(c) /\ WorkOK(c)'
      BY <1>3, <1>4, <1>6, <2>1, <2>2, <2>3, LoadsOK
    <2>5. Drained'
      BY <2>1, FileRows, DrainedStill DEF OnFile
    <2> QED
      BY <1>5, <2>1, <2>4, <2>5 DEF FileStep
  <1>7. ASSUME NEW r \in mine, Ends(c, Answer("duplicate", 0, 0, {})), work' = [work EXCEPT ![c] = Rest]
        PROVE  FileStep(c)
    <2>1. Answer("duplicate", 0, 0, {}).is # "stored"
      BY DEF Answer
    <2>2. CallStep(c) /\ Drained'
      BY <1>7, <2>1, EndsUnstored
    <2> QED
      BY <1>5, <1>7, <2>2, Rests DEF FileStep, OnFile
  <1>8. ASSUME NEW r \in mine, ~Clashes(req, r, f.rows), call' = call,
               Loads(c, WithChange(c, f, r), Answer("updated", 0, 0, {Changed(req, r)}))
        PROVE  FileStep(c)
    <2>1. CallStep(c) /\ call'[c] = call[c]
      BY <1>8, NoCallChange DEF OnFile
    <2>2. PICK g, s, told : /\ g = WithChange(c, f, r) /\ s = Changed(req, r)
                            /\ told = Answer("updated", 0, 0, {s})
      OBVIOUS
    <2>3. FileOK(g) /\ g.rows = (f.rows \ {r}) \cup {s}
      BY <1>1, <1>4, <2>2, WithChangeOK
    <2>4. s.id = r.id
      BY <1>4, <2>2, ChangedFields DEF FileOK, Proper
    <2>5. \A p \in f.rows : Spent(p.id)'
      BY <1>4, <2>1, AllSpentOn DEF OnFile
    <2>6. \A p \in g.rows : Spent(p.id)' \/ Own(c, p.id)'
      BY <2>3, <2>4, <2>5
    <2>7. ASSUME NEW w, w.base = file, w.next = g, w.told = told
          PROVE  Effect(c, call'[c], w)
      <3>1. r \in {p \in w.base.rows : p.id = call'[c].req.id}
        BY <1>1, <1>4, <2>1, <2>7
      <3>2. /\ ~Clashes(call'[c].req, r, w.base.rows) /\ s = Changed(call'[c].req, r)
            /\ w.next.rows = (w.base.rows \ {r}) \cup {s}
        BY <1>1, <1>4, <1>8, <2>1, <2>2, <2>3, <2>7
      <3>3. UpdateEffect(call'[c], w)
        BY <1>1, <1>3, <2>1, <2>2, <2>7, <3>1, <3>2 DEF UpdateEffect
      <3> QED
        BY <3>3 DEF Effect
    <2>8. WorkStep(c) /\ WorkOK(c)'
      BY <1>3, <1>8, <2>1, <2>2, <2>3, <2>6, <2>7, LoadsOK
    <2>9. Drained'
      BY <2>1, FileRows, DrainedStill DEF OnFile
    <2> QED
      BY <1>5, <2>1, <2>8, <2>9 DEF FileStep
  <1> QED
    BY <1>2, <1>6, <1>7, <1>8

LEMMA forgetStep ==
    ASSUME OnFile, NEW c \in Callers, forget(c)
    PROVE  FileStep(c)
  <1>1. PICK f, gone : f = Opened(file, Model[c]) /\ gone = Selected(call[c].req, f.rows)
    OBVIOUS
  <1>2. /\ Writing(c, "forget") /\ file' = file
        /\ Loads(c, WithoutRows(f, gone), Answer("deleted", Cardinality(gone), 0, {}))
        /\ call' = [call EXCEPT ![c].phase = "looked", ![c].snap = IdsOf(gone)]
    BY <1>1 DEF forget
  <1>3. call[c].req.op = "forget" /\ Busy(c)
    BY <1>2, WritingCall
  <1>4. FileOK(f) /\ f.rows = file.rows /\ AllSpent(f.rows)
    BY <1>1, OpenedCopy
  <1>5. /\ CallStep(c) /\ SameCall(call[c], call'[c])
        /\ call'[c].phase = "looked" /\ call'[c].snap = IdsOf(gone)
    BY <1>2, <1>3, SelectsCall DEF OnFile
  <1>6. PICK g, told : g = WithoutRows(f, gone) /\ told = Answer("deleted", Cardinality(gone), 0, {})
    OBVIOUS
  <1>7. FileOK(g) /\ g.rows = f.rows \ gone
    BY <1>4, <1>6, WithoutRowsOK
  <1>8. \A r \in g.rows : Spent(r.id)' \/ Own(c, r.id)'
    BY <1>4, <1>5, <1>7, AllSpentOn DEF OnFile
  <1>9. ASSUME NEW w, w.base = file, w.next = g, w.told = told
        PROVE  Effect(c, call'[c], w)
    <2>1. gone = Selected(call'[c].req, w.base.rows)
      BY <1>1, <1>4, <1>5, <1>9 DEF SameCall
    <2>2. ForgetEffect(call'[c], w)
      BY <1>3, <1>4, <1>5, <1>6, <1>7, <1>9, <2>1 DEF ForgetEffect, SameCall
    <2> QED
      BY <2>2 DEF Effect
  <1>10. WorkStep(c) /\ WorkOK(c)'
    BY <1>2, <1>5, <1>6, <1>7, <1>8, <1>9, LoadsOK
  <1>11. Drained'
    BY <1>3, <1>5, FileRows, DrainedElsewhere DEF OnFile, SameCall
  <1>12. FileOK(file)' /\ AllSpent(file.rows)'
    BY <1>2, <1>5, SameFile DEF OnFile, FileInv
  <1> QED
    BY <1>5, <1>10, <1>11, <1>12 DEF FileStep

\* What is told when nothing is stored.
LEMMA Answers ==
    ASSUME NEW is, NEW n, NEW m, NEW rows
    PROVE  Answer(is, n, m, rows).is = is /\ Failed.is = "failed" /\ Silence.is = "none"
  BY DEF Answer, Failed, Silence

\* The copy of a write takes the place of the file.
LEMMA SavesStep ==
    ASSUME OnFile, NEW c \in Callers, IsSaving(work[c]), file' = work[c].next,
           work' = [work EXCEPT ![c] = Rest],
           Ends(c, work[c].told) \/ Ends(c, Failed)
    PROVE  FileStep(c)
  <1>1. PICK w, x, got : /\ w = work[c] /\ x = call[c]
                         /\ Ends(c, got) /\ (got = w.told \/ got = Failed)
    OBVIOUS
  <1>2. /\ FileOK(w.next) /\ Effect(c, x, w) /\ CallOK(x)
        /\ \A r \in w.next.rows : Spent(r.id) \/ Own(c, r.id)
    BY <1>1 DEF OnFile, FileInv, WorkOK, Fits, CallsOK
  <1>3. CallStep(c) /\ SameCall(call[c], call'[c]) /\ call'[c].phase = "ended"
    BY <1>1, EndsCall DEF OnFile
  <1>4. FileOK(file)' /\ AllSpent(file.rows)'
    <2>1. FileOK(file') /\ file'.rows = w.next.rows
      BY <1>1, <1>2
    <2>2. \A r \in w.next.rows : Spent(r.id)'
      BY <1>2, <1>3, SpentOn, OwnSpent DEF OnFile
    <2> QED
      BY <2>1, <2>2 DEF AllSpent
  <1>5. CASE got.is # "stored"
    <2>1. Drained'
      BY <1>1, <1>5, EndsUnstored
    <2> QED
      BY <1>3, <1>4, <2>1, Rests DEF FileStep, OnFile
  <1>6. CASE got.is = "stored"
    <2>1. got = w.told
      BY <1>1, <1>6, Answers
    <2>2. ~UpdateEffect(x, w) /\ ~ForgetEffect(x, w)
      <3>1. UpdateEffect(x, w) => w.told.is \in {"absent", "updated"}
        <4>1. \A rows : /\ Answer("updated", 0, 0, rows).is = "updated"
                        /\ Answer("absent", 0, 0, rows).is = "absent"
          BY DEF Answer
        <4> QED
          BY <4>1 DEF UpdateEffect
      <3>2. ForgetEffect(x, w) => w.told.is = "deleted"
        BY DEF ForgetEffect, Answer
      <3> QED
        BY <1>6, <2>1, <3>1, <3>2
    <2>3. IngestEffect(c, x, w)
      BY <1>2, <2>2 DEF Effect
    <2>4. PICK K : K = Range(x.todo) \ KeysOf(w.base.rows)
      OBVIOUS
    <2>5. /\ x.req.op = "ingest" /\ x.phase = "looked"
          /\ w.next.rows = w.base.rows \cup MintedBy(c, x, K)
          /\ got = Answer("stored", Cardinality(K), x.skipped + Len(x.todo) - Cardinality(K), {})
      BY <2>1, <2>3, <2>4 DEF IngestEffect
    <2>6. IsFiniteSet(Range(x.todo)) /\ K \in SUBSET Range(x.todo)
      BY <1>2, <2>4, TodoFinite DEF CallOK
    <2>7. IsFiniteSet(K) /\ Cardinality(K) \in Nat
      BY <2>6, FS_Subset, FS_CardinalityType
    <2>8. \A k \in K : k = Key(k.text, k.source)
      BY <1>2, <2>5, <2>6 DEF CallOK
    <2>9. MintedOf(c, K) = MintedBy(c, x, K)
      BY <1>1 DEF MintedOf, MintedBy, MintedRow
    <2>10. KeysOf(w.next.rows) = KeysOf(w.base.rows) \cup K
      <3>1. KeysOf(MintedOf(c, K)) = K
        BY <2>7, <2>8, MintedRows
      <3> QED
        BY <2>5, <2>9, <3>1, KeysOfUnion
    <2>11. Range(x.todo) \subseteq KeysOf(Rows')
      BY <1>1, <2>4, <2>10, FileRows
    <2>12. PICK n, m : n = Cardinality(K) /\ m = x.skipped + Len(x.todo) - Cardinality(K)
      OBVIOUS
    <2>13. n \in Int /\ m \in Int /\ n + m = x.skipped + Len(x.todo)
      <3>1. x.skipped \in Int /\ Len(x.todo) \in Nat
        BY <1>2 DEF CallOK
      <3> QED
        BY <2>7, <2>12, <3>1
    <2>14. Ends(c, Answer("stored", n, m, {}))
      BY <1>1, <2>5, <2>12
    <2>15. Drained'
      BY <1>1, <2>5, <2>11, <2>13, <2>14, FileRows, DrainedEnd DEF OnFile
    <2> QED
      BY <1>3, <1>4, <2>15, Rests DEF FileStep, OnFile
  <1> QED
    BY <1>5, <1>6

LEMMA SavedStep ==
    ASSUME OnFile, NEW c \in Callers, Saved(c) \/ SavedUnheard(c)
    PROVE  FileStep(c)
  <1>1. IsSaving(work[c])
    BY DEF Saved, SavedUnheard, At, IsSaving
  <1> QED
    BY <1>1, SavesStep DEF Saved, SavedUnheard

\* The step moves c's copy on and nothing else.
LEMMA MovesOn ==
    ASSUME OnFile, NEW c \in Callers, call' = call, NEW w, work' = [work EXCEPT ![c] = w],
           Fits(c, call[c], w), w.next = work[c].next, IsSaving(w) = IsSaving(work[c]),
           w.pc \in {"truncate", "fill"} => store = "file"
    PROVE  CallStep(c) /\ WorkStep(c) /\ WorkOK(c)' /\ Drained'
  <1>1. CallStep(c) /\ call'[c] = call[c]
    BY NoCallChange DEF OnFile
  <1>2. Drained'
    BY <1>1, FileRows, DrainedStill DEF OnFile
  <1>3. WorkStep(c) /\ work'[c] = w
    BY OneWork DEF OnFile
  <1>4. \A r \in w.next.rows : Spent(r.id) \/ (IsSaving(w) /\ Own(c, r.id))
    BY DEF OnFile, FileInv, WorkOK
  <1>5. \A r \in w.next.rows : Spent(r.id)' \/ (IsSaving(w) /\ Own(c, r.id)')
    BY <1>1, <1>4, SpentOn DEF OnFile, Own
  <1>6. Fits(c, call'[c], w)
    BY <1>1
  <1> QED
    BY <1>1, <1>2, <1>3, <1>5, <1>6 DEF WorkOK, OnFile

LEMMA CheckedStep ==
    ASSUME OnFile, NEW c \in Callers, Checked(c)
    PROVE  FileStep(c)
  <1>1. /\ store = "file" /\ file' = file /\ call' = call
        /\ At(c, "save") \/ (At(c, "answer") /\ Owed(c))
    BY DEF Checked
  <1>2. PICK v : v = work[c]
    OBVIOUS
  <1>3. PICK w : w = [v EXCEPT !.pc = "truncate", !.then = v.pc]
    OBVIOUS
  <1>4. work' = [work EXCEPT ![c] = w]
    BY <1>2, <1>3 DEF Checked, OnFile, FileInv
  <1>5. Fits(c, call[c], v)
    BY <1>2 DEF OnFile, FileInv, WorkOK
  <1>6. /\ IsWork(w) /\ w.pc = "truncate" /\ w.then = v.pc /\ w.base = v.base /\ w.next = v.next
        /\ w.told = v.told /\ v.pc \in {"save", "answer"}
    BY <1>1, <1>2, <1>3, <1>5 DEF IsWork, Fits, At
  <1>7. IsSaving(w) = IsSaving(v)
    BY <1>6 DEF IsSaving
  <1>8. Effect(c, call[c], v) => Effect(c, call[c], w)
    BY <1>6 DEF Effect, IngestEffect, UpdateEffect, ForgetEffect
  <1>9. Fits(c, call[c], w)
    BY <1>5, <1>6, <1>7, <1>8 DEF Fits
  <1>10. CallStep(c) /\ WorkStep(c) /\ WorkOK(c)' /\ Drained'
    BY <1>1, <1>2, <1>4, <1>6, <1>7, <1>9, MovesOn
  <1> QED
    BY <1>1, <1>10, SameFile DEF FileStep, OnFile, FileInv

LEMMA TruncatedStep ==
    ASSUME OnFile, NEW c \in Callers, Truncated(c)
    PROVE  FileStep(c)
  <1>1. At(c, "truncate") /\ file' = [NoFile EXCEPT !.space = Unmarked] /\ call' = call
    BY DEF Truncated
  <1>2. PICK v : v = work[c]
    OBVIOUS
  <1>3. PICK w : w = [v EXCEPT !.pc = "fill"]
    OBVIOUS
  <1>4. work' = [work EXCEPT ![c] = w]
    BY <1>2, <1>3 DEF Truncated, OnFile, FileInv
  <1>5. Fits(c, call[c], v) /\ v.pc = "truncate" /\ store = "file"
    BY <1>1, <1>2 DEF OnFile, FileInv, WorkOK, At
  <1>6. /\ IsWork(w) /\ w.pc = "fill" /\ w.then = v.then /\ w.base = v.base /\ w.next = v.next
        /\ w.told = v.told
    BY <1>3, <1>5 DEF IsWork, Fits
  <1>7. IsSaving(w) = IsSaving(v)
    BY <1>5, <1>6 DEF IsSaving
  <1>8. Effect(c, call[c], v) => Effect(c, call[c], w)
    BY <1>6 DEF Effect, IngestEffect, UpdateEffect, ForgetEffect
  <1>9. Fits(c, call[c], w)
    BY <1>5, <1>6, <1>7, <1>8 DEF Fits
  <1>10. CallStep(c) /\ WorkStep(c) /\ WorkOK(c)' /\ Drained'
    BY <1>1, <1>2, <1>4, <1>5, <1>6, <1>7, <1>9, MovesOn
  <1>11. FileOK(file') /\ file'.rows = {}
    BY <1>1, EmptyFiles
  <1>12. FileOK(file)' /\ AllSpent(file.rows)'
    BY <1>11 DEF AllSpent
  <1> QED
    BY <1>10, <1>12 DEF FileStep

LEMMA FilledStep ==
    ASSUME OnFile, NEW c \in Callers, Filled(c)
    PROVE  FileStep(c)
  <1>1. At(c, "fill") /\ file' = work[c].next
    BY DEF Filled
  <1>2. CASE /\ work[c].then = "save" /\ work' = [work EXCEPT ![c] = Rest]
             /\ Ends(c, work[c].told)
    <2>1. IsSaving(work[c])
      BY <1>1, <1>2 DEF IsSaving, At
    <2> QED
      BY <1>1, <1>2, <2>1, SavesStep
  <1>3. CASE /\ work[c].then = "answer" /\ call' = call
             /\ work' = [work EXCEPT ![c] = [Rest EXCEPT !.pc = "answer"]]
    <2>1. /\ Fits(c, call[c], work[c]) /\ ~IsSaving(work[c])
          /\ \A r \in work[c].next.rows : Spent(r.id)
      BY <1>1, <1>3 DEF OnFile, FileInv, WorkOK, IsSaving, At
    <2>2. CallStep(c) /\ call'[c] = call[c]
      BY <1>3, NoCallChange DEF OnFile
    <2>3. Drained'
      BY <2>2, FileRows, DrainedStill DEF OnFile
    <2>4. PICK w : w = [Rest EXCEPT !.pc = "answer"]
      OBVIOUS
    <2>5. IsWork(w) /\ w.pc = "answer" /\ w.next = NoFile /\ ~IsSaving(w)
      BY <2>4, RestFields DEF IsWork, IsSaving
    <2>6. WorkStep(c) /\ work'[c] = w
      BY <1>3, <2>4, OneWork DEF OnFile
    <2>7. call[c].phase = "looked"
      BY <1>1, <1>3, <2>1 DEF Fits, At
    <2>8. Fits(c, call'[c], w)
      BY <2>2, <2>5, <2>7, EmptyFiles DEF Fits
    <2>9. WorkOK(c)'
      BY <2>5, <2>6, <2>8, BlankWork
    <2>10. \A r \in work[c].next.rows : Spent(r.id)'
      BY <2>1, <2>2, SpentOn DEF OnFile
    <2>11. FileOK(file')
      BY <1>1, <2>1 DEF Fits
    <2>12. FileOK(file)' /\ AllSpent(file.rows)'
      BY <1>1, <2>10, <2>11 DEF AllSpent
    <2> QED
      BY <2>2, <2>3, <2>6, <2>9, <2>12 DEF FileStep
  <1> QED
    BY <1>2, <1>3 DEF Filled

\* An error ends the call; the file stays.
LEMMA GivesUp ==
    ASSUME OnFile, NEW c \in Callers, work' = [work EXCEPT ![c] = Rest], Ends(c, Failed), file' = file
    PROVE  FileStep(c)
  <1>1. CallStep(c) /\ Drained'
    BY Answers, EndsUnstored
  <1>2. FileOK(file') /\ file'.rows = file.rows
    BY DEF OnFile, FileInv
  <1> QED
    BY <1>1, <1>2, SameFile, Rests DEF FileStep, OnFile

LEMMA RacedStep ==
    ASSUME OnFile, NEW c \in Callers, Raced(c)
    PROVE  FileStep(c)
  <1>1. At(c, "save") /\ file' = file
    BY DEF Raced
  <1>2. CASE work' = [work EXCEPT ![c] = Rest] /\ Ends(c, Failed)
    BY <1>1, <1>2, GivesUp
  <1>3. CASE /\ work' = [work EXCEPT ![c].pc = "load", ![c].tries = @ + 1,
                                     ![c].base = NoFile, ![c].next = NoFile,
                                     ![c].told = Silence]
             /\ call' = call
    <2>1. Fits(c, call[c], work[c]) /\ IsSaving(work[c])
      BY <1>1 DEF OnFile, FileInv, WorkOK, At, IsSaving
    <2>2. PICK v : v = work[c]
      OBVIOUS
    <2>3. PICK w : w = [v EXCEPT !.pc = "load", !.tries = v.tries + 1, !.base = NoFile,
                                 !.next = NoFile, !.told = Silence]
      OBVIOUS
    <2>4. work' = [work EXCEPT ![c] = w]
      BY <1>3, <2>1, <2>2, <2>3 DEF OnFile, FileInv, Fits, IsWork
    <2>5. IsWork(w) /\ w.pc = "load" /\ w.next = NoFile /\ ~IsSaving(w)
      BY <2>1, <2>2, <2>3 DEF IsWork, Fits, IsSaving
    <2>6. Effect(c, call[c], v)
      BY <2>1, <2>2 DEF Fits
    <2>7. /\ call[c].phase \in {"pending", "looked"}
          /\ \/ call[c].req.op \in {"ingest", "forget"} /\ call[c].phase = "looked"
             \/ call[c].req.op = "update" /\ call[c].phase = "pending"
      BY <2>6 DEF Effect, IngestEffect, UpdateEffect, ForgetEffect
    <2>8. CallStep(c) /\ call'[c] = call[c]
      BY <1>3, NoCallChange DEF OnFile
    <2>9. Fits(c, call'[c], w)
      BY <2>5, <2>7, <2>8, EmptyFiles DEF Fits
    <2>10. WorkStep(c) /\ work'[c] = w
      BY <2>4, OneWork DEF OnFile
    <2>11. WorkOK(c)'
      BY <2>5, <2>9, <2>10, BlankWork
    <2>12. Drained'
      BY <2>8, FileRows, DrainedStill DEF OnFile
    <2>13. FileOK(file') /\ file'.rows = file.rows
      BY <1>1 DEF OnFile, FileInv
    <2> QED
      BY <2>8, <2>10, <2>11, <2>12, <2>13, SameFile DEF FileStep
  <1> QED
    BY <1>2, <1>3 DEF Raced

LEMMA FailsStep ==
    ASSUME OnFile, NEW c \in Callers, Fails(c)
    PROVE  FileStep(c)
  BY GivesUp DEF Fails

LEMMA AsksStep ==
    ASSUME OnFile, NEW c \in Callers, Asks(c)
    PROVE  FileStep(c)
  <1>1. /\ CallStep(c) /\ call'[c].phase = "pending" /\ call'[c].got = Silence
        /\ call[c].phase \in {"idle", "ended"}
        /\ file' = file /\ work' = work
    BY BeginCall, SendCall DEF OnFile, Asks
  <1>2. Drained'
    BY <1>1, Answers, FileRows, DrainedElsewhere DEF OnFile
  <1>3. FileOK(file') /\ file'.rows = file.rows
    BY <1>1 DEF OnFile, FileInv
  <1>4. WorkStep(c)
    BY <1>1 DEF OnFile, FileInv, WorkStep
  <1>5. WorkOK(c)
    BY DEF OnFile, FileInv
  <1>6. work[c].pc = "rest" /\ ~IsSaving(work[c])
    BY <1>1, <1>5 DEF WorkOK, Fits, IsSaving
  <1>7. Fits(c, call'[c], work'[c])
    BY <1>1, <1>5, <1>6 DEF WorkOK, Fits
  <1>8. \A r \in work[c].next.rows : Spent(r.id)'
    BY <1>1, <1>5, <1>6, SpentOn DEF WorkOK, OnFile
  <1>9. WorkOK(c)'
    BY <1>1, <1>6, <1>7, <1>8 DEF WorkOK
  <1> QED
    BY <1>1, <1>2, <1>3, <1>4, <1>9, SameFile DEF FileStep

LEMMA SyncKeeps ==
    ASSUME CallsOK, Drained, FileInv, NEW c \in Callers, FileStore(c)
    PROVE  CallsOK' /\ Drained' /\ FileInv' /\ store' = store
  <1>1. OnFile /\ SyncStep(c) /\ store' = store
    BY DEF OnFile, FileStore, SyncStep
  <1>2. FileStep(c)
    BY <1>1, existing_keysStep, ReadStep, AnsweredStep, LoadIngestStep, update_learningStep,
       forgetStep, SavedStep, CheckedStep, TruncatedStep, FilledStep, RacedStep, FailsStep,
       AsksStep
       DEF SyncStep, Works
  <1> QED
    BY <1>1, <1>2, FileStepKeeps

-----------------------------------------------------------------------------
(* The store in Postgres *)

IsTxn(t) == t = [at |-> t.at, added |-> t.added, lock |-> t.lock, read |-> t.read]

\* The items of x that its first n insertions took.
Sent(x, n) == {x.todo[i] : i \in 1 .. n}

\* A transaction fits the call it is opened for.
TxnFits(c, x, t) ==
    /\ IsTxn(t) /\ IsFiniteSet(t.added)
    /\ t.at \in {"none", "insert", "update", "scoped", "merged"}
    /\ t.at # "insert" => t.added = {}
    /\ t.at # "update" => t.lock = {}
    /\ t.at = "insert" =>
          /\ x.phase = "looked" /\ x.req.op = "ingest"
          /\ Cardinality(t.added) <= Len(x.todo)
          /\ t.added = MintedBy(c, x, Sent(x, Cardinality(t.added)))
    /\ t.at = "update" =>
          x.phase = "pending" /\ x.req.op = "update" /\ t.lock = {x.req.id}
    /\ t.at = "scoped" => x.phase = "looked" /\ x.req.op = "query"
    /\ t.at = "merged" => x.phase = "looked" /\ x.req.op \in {"query", "list"}

\* What it counts on is still so: the keys it inserted are free, the row it locked is
\* as it was read.
Stands(x, t, rows) ==
    /\ t.at = "insert" => KeysOf(t.added) \cap KeysOf(rows) = {}
    /\ t.at = "update" => \E r \in rows : r.id = x.req.id /\ r.text = t.read

Apart(t, u) == t.lock \cap u.lock = {} /\ KeysOf(t.added) \cap KeysOf(u.added) = {}

TableOK == Proper(table) /\ AllSpent(table) /\ EmbeddingMatches

PgInv ==
    /\ txn = [c \in Callers |-> txn[c]]
    /\ TableOK
    /\ \A c \in Callers : TxnFits(c, call[c], txn[c]) /\ Stands(call[c], txn[c], table)
    /\ \A c, d \in Callers : c # d => Apart(txn[c], txn[d])

\* The step concerns c's transaction alone.
TxnStep(c) ==
    /\ txn' = [d \in Callers |-> txn'[d]]
    /\ \A d \in Callers \ {c} : txn'[d] = txn[d]

TxnOK(c) ==
    /\ TxnFits(c, call'[c], txn'[c]) /\ Stands(call'[c], txn'[c], table')
    /\ \A d \in Callers \ {c} : Apart(txn'[c], txn[d])

\* What a step of c in the database leaves.
TableStep(c) ==
    /\ CallStep(c) /\ TxnStep(c) /\ TxnOK(c)
    /\ \A d \in Callers \ {c} : Stands(call[d], txn[d], table')
    /\ TableOK' /\ Drained'

LEMMA TableStepKeeps ==
    ASSUME CallsOK, PgInv, NEW c \in Callers, TableStep(c)
    PROVE  CallsOK' /\ Drained' /\ PgInv'
  <1>1. ASSUME NEW d \in Callers PROVE CallOK(call'[d])
    BY DEF CallsOK, TableStep, CallStep
  <1>2. CallsOK'
    BY <1>1 DEF CallsOK, TableStep, CallStep
  <1>3. ASSUME NEW d \in Callers
        PROVE  TxnFits(d, call'[d], txn'[d]) /\ Stands(call'[d], txn'[d], table')
    <2>1. CASE d = c
      BY <2>1 DEF TableStep, TxnOK
    <2>2. CASE d # c
      <3>1. call'[d] = call[d] /\ txn'[d] = txn[d]
        BY <2>2 DEF TableStep, CallStep, TxnStep
      <3> QED
        BY <2>2, <3>1 DEF TableStep, PgInv
    <2> QED
      BY <2>1, <2>2
  <1>4. \A d, e \in Callers \ {c} : d # e => Apart(txn'[d], txn'[e])
    BY DEF TableStep, TxnStep, PgInv
  <1>5. \A d \in Callers \ {c} : Apart(txn'[c], txn'[d]) /\ Apart(txn'[d], txn'[c])
    BY DEF TableStep, TxnStep, TxnOK, Apart
  <1>6. \A d, e \in Callers : d # e => Apart(txn'[d], txn'[e])
    BY <1>4, <1>5
  <1>7. PgInv'
    BY <1>3, <1>6 DEF PgInv, TableStep, TxnStep
  <1> QED
    BY <1>2, <1>7 DEF TableStep

\* What a step in the database may take for granted.
OnTable ==
    /\ CallsOK /\ Drained /\ PgInv
    /\ store = "postgres" /\ store' = store /\ PgRemembers

LEMMA TableRows ==
    ASSUME OnTable
    PROVE  Rows = table /\ Rows' = table' /\ Remembered
  BY DEF OnTable, Rows, Remembered, PgRemembers

LEMMA TableEnds ==
    ASSUME OnTable, NEW c \in Callers, NEW got, Ends(c, got), got.is # "stored"
    PROVE  CallStep(c) /\ Drained'
  <1>1. CallStep(c) /\ call'[c].phase = "ended" /\ call'[c].got = got
    BY EndsCall DEF OnTable
  <1> QED
    BY <1>1, TableRows, DrainedElsewhere DEF OnTable

LEMMA SameTable ==
    ASSUME OnTable, NEW c \in Callers, CallStep(c), table' = table, vec' = vec
    PROVE  /\ TableOK'
           /\ \A d \in Callers \ {c} : Stands(call[d], txn[d], table')
  <1>1. \A r \in table : Spent(r.id)'
    BY AllSpentOn DEF OnTable, PgInv, TableOK
  <1>2. Proper(table)' /\ AllSpent(table)' /\ EmbeddingMatches'
    BY <1>1 DEF OnTable, PgInv, TableOK, AllSpent, EmbeddingMatches
  <1> QED
    BY <1>2 DEF OnTable, PgInv, TableOK

LEMMA OneTxn ==
    ASSUME OnTable, NEW c \in Callers, NEW t, txn' = [txn EXCEPT ![c] = t]
    PROVE  TxnStep(c) /\ txn'[c] = t
  BY DEF OnTable, PgInv, TxnStep

LEMMA NoTxnFields ==
    /\ IsTxn(NoTxn) /\ NoTxn.at = "none" /\ NoTxn.added = {} /\ NoTxn.lock = {}
    /\ KeysOf({}) = {} /\ IsFiniteSet({}) /\ Cardinality({}) = 0
  BY FS_EmptySet DEF NoTxn, IsTxn, KeysOf

\* A transaction that holds nothing.
LEMMA HoldsNothing ==
    ASSUME NEW c \in Callers, txn'[c].at \notin {"insert", "update"},
           TxnFits(c, call'[c], txn'[c])
    PROVE  TxnOK(c)
  BY NoTxnFields DEF TxnOK, TxnFits, Stands, Apart

LEMMA ClosesTxn ==
    ASSUME OnTable, NEW c \in Callers, Closes(c)
    PROVE  TxnStep(c) /\ TxnOK(c)
  <1>1. TxnStep(c) /\ txn'[c] = NoTxn
    BY OneTxn DEF Closes
  <1>2. TxnFits(c, call'[c], NoTxn)
    BY NoTxnFields DEF TxnFits
  <1> QED
    BY <1>1, <1>2, NoTxnFields, HoldsNothing

LEMMA OwnTxn ==
    ASSUME OnTable, NEW c \in Callers
    PROVE  /\ TxnFits(c, call[c], txn[c]) /\ Stands(call[c], txn[c], table)
           /\ CallOK(call[c])
           /\ \A d \in Callers \ {c} : Apart(txn[c], txn[d])
  BY DEF OnTable, PgInv, CallsOK

\* Raises and Deadlocked.
LEMMA AbortStep ==
    ASSUME OnTable, NEW c \in Callers, Raises(c) \/ Deadlocked(c)
    PROVE  TableStep(c)
  <1>1. Ends(c, Failed) /\ Closes(c) /\ table' = table /\ vec' = vec
    BY DEF Raises, Deadlocked
  <1>2. CallStep(c) /\ Drained'
    BY <1>1, Answers, TableEnds
  <1> QED
    BY <1>1, <1>2, ClosesTxn, SameTable DEF TableStep

LEMMA PgAsksStep ==
    ASSUME OnTable, NEW c \in Callers, PgAsks(c)
    PROVE  TableStep(c)
  <1>1. /\ CallStep(c) /\ call'[c].phase = "pending" /\ call'[c].got = Silence
        /\ call[c].phase \in {"idle", "ended"}
        /\ table' = table /\ vec' = vec /\ txn' = txn
    BY BeginCall, SendCall DEF OnTable, PgAsks
  <1>2. Drained'
    BY <1>1, Answers, TableRows, DrainedElsewhere DEF OnTable
  <1>3. TxnStep(c)
    BY <1>1 DEF OnTable, PgInv, TxnStep
  <1>4. TxnFits(c, call[c], txn[c]) /\ txn[c].at = "none"
    BY <1>1, OwnTxn DEF TxnFits
  <1>5. TxnOK(c)
    BY <1>1, <1>4, HoldsNothing DEF TxnFits
  <1> QED
    BY <1>1, <1>2, <1>3, <1>5, SameTable DEF TableStep

LEMMA ExistingKeysStep ==
    ASSUME OnTable, NEW c \in Callers, ExistingKeys(c)
    PROVE  TableStep(c)
  <1>1. /\ call[c].phase = "pending" /\ call[c].req.op = "ingest" /\ LooksAt(c, table)
        /\ table' = table /\ vec' = vec /\ txn' = txn
    BY DEF ExistingKeys, Asked
  <1>2. CallStep(c) /\ SameCall(call[c], call'[c]) /\ call'[c].phase = "looked"
    BY <1>1, LooksCall DEF OnTable
  <1>3. Drained'
    BY <1>1, TableRows, DrainedLook DEF OnTable
  <1>4. TxnStep(c)
    BY <1>1 DEF OnTable, PgInv, TxnStep
  <1>5. TxnFits(c, call[c], txn[c]) /\ txn[c].at = "none"
    BY <1>1, OwnTxn DEF TxnFits
  <1>6. TxnOK(c)
    BY <1>1, <1>5, HoldsNothing DEF TxnFits
  <1> QED
    BY <1>1, <1>2, <1>3, <1>4, <1>6, SameTable DEF TableStep

LEMMA EmbedsStep ==
    ASSUME OnTable, NEW c \in Callers, Embeds(c)
    PROVE  TableStep(c)
  <1>1. /\ call[c].phase = "looked" /\ call[c].req.op = "ingest" /\ txn[c].at = "none"
        /\ table' = table /\ vec' = vec /\ call' = call
    BY DEF Embeds, Asked, InTxn
  <1>2. CallStep(c) /\ call'[c] = call[c]
    BY <1>1, NoCallChange DEF OnTable
  <1>3. Drained'
    BY <1>2, TableRows, DrainedStill DEF OnTable
  <1>4. TxnFits(c, call[c], txn[c]) /\ CallOK(call[c])
    BY OwnTxn
  <1>5. PICK t : t = [txn[c] EXCEPT !.at = "insert"]
    OBVIOUS
  <1>6. txn' = [txn EXCEPT ![c] = t]
    BY <1>5 DEF Embeds, OnTable, PgInv
  <1>7. IsTxn(t) /\ t.at = "insert" /\ t.added = {} /\ t.lock = {}
    BY <1>1, <1>4, <1>5 DEF TxnFits, IsTxn
  <1>8. TxnStep(c) /\ txn'[c] = t
    BY <1>6, OneTxn
  <1>9. MintedBy(c, call[c], Sent(call[c], 0)) = {}
    BY DEF MintedBy, Sent
  <1>10. 0 <= Len(call[c].todo)
    BY <1>4 DEF CallOK
  <1>11. TxnFits(c, call'[c], t)
    BY <1>1, <1>2, <1>7, <1>9, <1>10, NoTxnFields DEF TxnFits
  <1>12. TxnOK(c)
    BY <1>7, <1>8, <1>11, NoTxnFields DEF TxnOK, Stands, Apart
  <1> QED
    BY <1>1, <1>2, <1>3, <1>8, <1>12, SameTable DEF TableStep

\* A transaction that inserts.
LEMMA Inserting ==
    ASSUME OnTable, NEW c \in Callers, InTxn(c, "insert")
    PROVE  /\ call[c].phase = "looked" /\ call[c].req.op = "ingest" /\ Busy(c)
           /\ IsTxn(txn[c]) /\ IsFiniteSet(txn[c].added) /\ txn[c].lock = {}
           /\ Cardinality(txn[c].added) \in Nat
           /\ Cardinality(txn[c].added) <= Len(call[c].todo)
           /\ txn[c].added = MintedBy(c, call[c], Sent(call[c], Cardinality(txn[c].added)))
           /\ KeysOf(txn[c].added) \cap KeysOf(table) = {}
  BY OwnTxn, FS_CardinalityType DEF InTxn, TxnFits, Stands, Busy

\* The first n items of a batch, and the rows minted of them.
LEMMA SentItems ==
    ASSUME CallsOK, NEW c \in Callers, call[c].req.op = "ingest",
           NEW n \in Nat, n <= Len(call[c].todo), NEW K, K = Sent(call[c], n)
    PROVE  /\ K \subseteq Range(call[c].todo) /\ IsFiniteSet(K)
           /\ n = Len(call[c].todo) => K = Range(call[c].todo)
           /\ \A k \in Range(call[c].todo) : k = Key(k.text, k.source)
           /\ MintedBy(c, call[c], K) = MintedOf(c, K)
  <1>1. CallOK(call[c])
    BY DEF CallsOK
  <1>2. call[c].todo \in Seq(Range(call[c].todo))
    BY <1>1 DEF CallOK
  <1>3. Range(call[c].todo) = {call[c].todo[i] : i \in 1 .. Len(call[c].todo)} /\ Len(call[c].todo) \in Nat
    BY <1>2 DEF Range
  <1>4. K \in SUBSET Range(call[c].todo)
    BY <1>3 DEF Sent
  <1>5. IsFiniteSet(K)
    BY <1>2, <1>4, TodoFinite, FS_Subset
  <1> QED
    BY <1>1, <1>3, <1>4, <1>5 DEF CallOK, Sent, MintedBy, MintedOf, MintedRow

LEMMA InsertsItemStep ==
    ASSUME OnTable, NEW c \in Callers, InsertsItem(c)
    PROVE  TableStep(c)
  <1>1. PICK t, x, n, k : t = txn[c] /\ x = call[c] /\ n = Cardinality(t.added) /\ k = x.todo[n + 1]
    OBVIOUS
  <1>2. /\ InTxn(c, "insert") /\ n < Len(x.todo) /\ table' = table /\ vec' = vec
        /\ \/ /\ k \in KeysOf(table)
              /\ call' = [call EXCEPT ![c].todo = RemoveAt(@, n + 1), ![c].skipped = @ + 1]
              /\ txn' = txn
           \/ /\ k \notin KeysOf(table) \cup Uncommitted(c)
              /\ txn' = [txn EXCEPT ![c].added = @ \cup {MintedRow(c, k)}]
              /\ call' = call
    BY <1>1 DEF InsertsItem, NextItem
  <1>3. /\ x.phase = "looked" /\ x.req.op = "ingest" /\ t.at = "insert"
        /\ IsTxn(t) /\ IsFiniteSet(t.added) /\ t.lock = {} /\ n \in Nat
        /\ t.added = MintedBy(c, x, Sent(x, n)) /\ KeysOf(t.added) \cap KeysOf(table) = {}
    BY <1>1, <1>2, Inserting DEF InTxn
  <1>4. TxnFits(c, x, t) /\ CallOK(x) /\ \A d \in Callers \ {c} : Apart(t, txn[d])
    BY <1>1, OwnTxn
  <1>5. Len(x.todo) \in Nat /\ n + 1 \in 1 .. Len(x.todo)
    BY <1>2, <1>3, <1>4 DEF CallOK
  <1>6. CASE /\ k \in KeysOf(table)
             /\ call' = [call EXCEPT ![c].todo = RemoveAt(@, n + 1), ![c].skipped = @ + 1]
             /\ txn' = txn
    <2>1. /\ CallStep(c) /\ SameCall(x, call'[c])
          /\ call'[c].phase = "looked"
          /\ Len(call'[c].todo) = Len(x.todo) - 1
          /\ \A j \in 1 .. n : call'[c].todo[j] = x.todo[j]
      <3>1. PICK i : i = n + 1
        OBVIOUS
      <3>2. i \in 1 .. Len(call[c].todo) /\ call[c].phase = "looked"
        BY <1>1, <1>3, <1>5, <3>1
      <3>3. call' = [call EXCEPT ![c].todo = RemoveAt(@, i), ![c].skipped = @ + 1]
        BY <1>6, <3>1
      <3>4. /\ CallStep(c) /\ SameCall(call[c], call'[c]) /\ call'[c].phase = "looked"
            /\ Len(call'[c].todo) = Len(call[c].todo) - 1
            /\ \A j \in 1 .. i - 1 : call'[c].todo[j] = call[c].todo[j]
        BY <3>2, <3>3, SkipsCall DEF OnTable
      <3>5. 1 .. n = 1 .. i - 1
        BY <1>3, <3>1
      <3> QED
        BY <1>1, <3>4, <3>5
    <2>2. Drained'
      BY <1>1, <1>3, <1>5, <1>6, TableRows, DrainedSkip DEF OnTable
    <2>3. Sent(call'[c], n) = Sent(x, n)
      BY <1>3, <2>1 DEF Sent
    <2>4. MintedBy(c, call'[c], Sent(call'[c], n)) = t.added
      BY <1>3, <2>1, <2>3 DEF MintedBy, SameCall
    <2>5. n <= Len(call'[c].todo)
      BY <1>2, <1>3, <1>5, <2>1
    <2>6. TxnFits(c, call'[c], t)
      BY <1>1, <1>3, <2>1, <2>4, <2>5 DEF TxnFits, SameCall
    <2>7. TxnStep(c) /\ txn'[c] = t
      BY <1>1, <1>6 DEF OnTable, PgInv, TxnStep
    <2>8. TxnOK(c)
      BY <1>2, <1>3, <1>4, <2>6, <2>7 DEF TxnOK, Stands
    <2> QED
      BY <1>2, <2>1, <2>2, <2>7, <2>8, SameTable DEF TableStep
  <1>7. CASE /\ k \notin KeysOf(table) \cup Uncommitted(c)
             /\ txn' = [txn EXCEPT ![c].added = @ \cup {MintedRow(c, k)}]
             /\ call' = call
    <2>1. CallStep(c) /\ call'[c] = x
      BY <1>1, <1>7, NoCallChange DEF OnTable
    <2>2. Drained'
      BY <1>1, <2>1, TableRows, DrainedStill DEF OnTable
    <2>3. PICK r, a, u : r = MintedRow(c, k) /\ a = t.added \cup {r} /\ u = [t EXCEPT !.added = a]
      OBVIOUS
    <2>4. txn' = [txn EXCEPT ![c] = u]
      BY <1>1, <1>3, <1>7, <2>3 DEF IsTxn, OnTable, PgInv
    <2>5. IsTxn(u) /\ u.at = "insert" /\ u.added = a /\ u.lock = {}
      BY <1>3, <2>3 DEF IsTxn
    <2>6. TxnStep(c) /\ txn'[c] = u
      BY <2>4, OneTxn
    <2>7. k \in Range(x.todo) /\ k = Key(k.text, k.source)
      BY <1>1, <1>3, <1>4, <1>5 DEF CallOK, Range
    <2>8. KeyOf(r) = k
      BY <2>3, <2>7, MintedFields
    <2>9. KeysOf(a) = KeysOf(t.added) \cup {k}
      BY <2>3, <2>8 DEF KeysOf
    <2>10. IsFiniteSet(a) /\ Cardinality(a) = IF r \in t.added THEN n ELSE n + 1
      BY <1>1, <1>3, <2>3, FS_AddElement
    <2>11. a = MintedBy(c, x, Sent(x, Cardinality(a)))
      <3>1. CASE r \in t.added
        <4>1. a = t.added
          BY <2>3, <3>1
        <4> QED BY <1>1, <1>3, <4>1
      <3>2. CASE r \notin t.added
        <4>1. Sent(x, n + 1) = Sent(x, n) \cup {k}
          <5>1. 1 .. n + 1 = (1 .. n) \cup {n + 1}
            BY <1>3
          <5> QED BY <1>1, <5>1 DEF Sent
        <4>2. r = [id |-> <<c, x.n, x.pass, k>>, text |-> k.text, source |-> k.source]
          BY <1>1, <2>3 DEF MintedRow
        <4>3. MintedBy(c, x, Sent(x, n) \cup {k}) = MintedBy(c, x, Sent(x, n)) \cup {r}
          BY <4>2 DEF MintedBy
        <4> QED BY <1>3, <2>3, <2>10, <3>2, <4>1, <4>3
      <3> QED BY <3>1, <3>2
    <2>12. Cardinality(a) <= Len(x.todo)
      BY <1>2, <1>3, <1>5, <2>10
    <2>13. TxnFits(c, call'[c], u)
      BY <1>3, <2>1, <2>5, <2>10, <2>11, <2>12 DEF TxnFits
    <2>14. Stands(call'[c], u, table')
      BY <1>2, <1>3, <1>7, <2>5, <2>9 DEF Stands
    <2>15. ASSUME NEW d \in Callers \ {c} PROVE Apart(u, txn[d])
      <3>1. k \notin KeysOf(txn[d].added)
        BY <1>7 DEF Uncommitted
      <3>2. KeysOf(t.added) \cap KeysOf(txn[d].added) = {}
        BY <1>4 DEF Apart
      <3> QED BY <2>5, <2>9, <3>1, <3>2 DEF Apart
    <2>16. TxnOK(c)
      BY <2>6, <2>13, <2>14, <2>15 DEF TxnOK
    <2> QED
      BY <1>2, <2>1, <2>2, <2>6, <2>16, SameTable DEF TableStep
  <1> QED
    BY <1>2, <1>6, <1>7

\* What a batch about to be committed adds.
LEMMA Batch ==
    ASSUME OnTable, NEW c \in Callers, call[c].phase = "looked", call[c].req.op = "ingest",
           call[c].todo = <<>> \/ InTxn(c, "insert"),
           Cardinality(txn[c].added) = Len(call[c].todo),
           NEW K, K = Range(call[c].todo)
    PROVE  /\ txn[c].added = MintedOf(c, K)
           /\ Cardinality(txn[c].added) = Cardinality(K) /\ Cardinality(K) \in Nat
           /\ KeysOf(txn[c].added) = K
           /\ KeysOf(txn[c].added) \cap KeysOf(table) = {}
           /\ Proper(txn[c].added) /\ \A r \in txn[c].added : Own(c, r.id)
  <1>1. CallOK(call[c]) /\ TxnFits(c, call[c], txn[c])
    BY OwnTxn
  <1>2. IsFiniteSet(K) /\ Cardinality(K) \in Nat /\ \A k \in K : k = Key(k.text, k.source)
    BY <1>1, TodoFinite DEF CallOK
  <1>3. txn[c].added = MintedOf(c, K) /\ KeysOf(txn[c].added) \cap KeysOf(table) = {}
    <2>1. CASE InTxn(c, "insert")
      <3>1. Len(call[c].todo) \in Nat
        BY <1>1 DEF CallOK
      <3>2. txn[c].added = MintedBy(c, call[c], Sent(call[c], Len(call[c].todo)))
        BY <2>1, Inserting
      <3>3. Sent(call[c], Len(call[c].todo)) = K
        BY <3>1, SentItems DEF OnTable
      <3>4. MintedBy(c, call[c], K) = MintedOf(c, K)
        BY <3>1, <3>3, SentItems DEF OnTable
      <3> QED
        BY <2>1, <3>2, <3>3, <3>4, Inserting
    <2>2. CASE ~InTxn(c, "insert")
      <3>1. txn[c].added = {}
        BY <1>1, <2>2 DEF TxnFits, InTxn
      <3>2. K = {}
        BY <2>2, EmptyTodo
      <3> QED
        BY <3>1, <3>2, NoTxnFields DEF MintedOf
    <2> QED
      BY <2>1, <2>2
  <1>4. PICK a : a = txn[c].added
    OBVIOUS
  <1>5. Proper(a) /\ Cardinality(a) = Cardinality(K) /\ KeysOf(a) = K /\ \A r \in a : Own(c, r.id)
    BY <1>2, <1>3, <1>4, MintedRows
  <1> QED
    BY <1>2, <1>3, <1>4, <1>5

LEMMA CommitsStep ==
    ASSUME OnTable, NEW c \in Callers, Commits(c)
    PROVE  TableStep(c)
  <1>1. PICK t, x, n, got : /\ t = txn[c] /\ x = call[c] /\ n = Cardinality(t.added)
                            /\ got = Answer("stored", n, x.skipped, {})
    OBVIOUS
  <1> DEFINE v == [id \in DOMAIN vec \cup IdsOf(t.added) |->
                     IF id \in DOMAIN vec THEN vec[id]
                     ELSE (CHOOSE r \in t.added : r.id = id).text]
  <1>2. /\ x.phase = "looked" /\ x.req.op = "ingest"
        /\ call[c].todo = <<>> \/ InTxn(c, "insert")
        /\ n = Len(x.todo)
        /\ table' = table \cup t.added /\ vec' = v
        /\ Ends(c, got) \/ Ends(c, Failed)
        /\ Closes(c)
    BY <1>1 DEF Commits, Asked
  <1>3. /\ KeysOf(t.added) = Range(x.todo) /\ KeysOf(t.added) \cap KeysOf(table) = {}
        /\ Proper(t.added) /\ \A r \in t.added : Own(c, r.id)
        /\ n \in Nat
    <2>1. PICK K : K = Range(x.todo)
      OBVIOUS
    <2> QED
      BY <1>1, <1>2, <2>1, Batch
  <1>4. Proper(table) /\ AllSpent(table) /\ EmbeddingMatches
    BY DEF OnTable, PgInv, TableOK
  <1>5. CallStep(c) /\ SameCall(call[c], call'[c]) /\ call'[c].phase = "ended"
    BY <1>2, EndsCall DEF OnTable
  <1>6. \A r \in table, s \in t.added : r.id # s.id
    BY <1>1, <1>2, <1>3, <1>4, OwnUnspent DEF AllSpent, OnTable, Busy
  <1>7. Proper(table')
    <2>1. IdsOf(table) \cap IdsOf(t.added) = {}
      BY <1>6 DEF IdsOf
    <2> QED
      BY <1>2, <1>3, <1>4, <2>1, ProperUnion
  <1>8. AllSpent(table)'
    <2>1. \A r \in table : Spent(r.id)'
      BY <1>4, <1>5, AllSpentOn DEF OnTable
    <2>2. \A r \in t.added : Spent(r.id)'
      BY <1>3, <1>5, OwnSpent DEF OnTable
    <2> QED
      BY <1>2, <2>1, <2>2 DEF AllSpent
  <1>9. EmbeddingMatches'
    <2>1. DOMAIN v = DOMAIN vec \cup IdsOf(t.added) /\ DOMAIN vec = IdsOf(table)
      BY <1>4 DEF EmbeddingMatches
    <2>2. IdsOf(table') = IdsOf(table) \cup IdsOf(t.added)
      BY <1>2 DEF IdsOf
    <2>3. ASSUME NEW r \in table PROVE v[r.id] = r.text
      <3>1. r.id \in DOMAIN vec
        BY <2>1 DEF IdsOf
      <3>2. v[r.id] = vec[r.id]
        BY <3>1
      <3> QED
        BY <1>4, <3>2 DEF EmbeddingMatches
    <2>4. ASSUME NEW r \in t.added PROVE v[r.id] = r.text
      <3>1. r.id \notin DOMAIN vec /\ r.id \in IdsOf(t.added)
        BY <1>6, <2>1 DEF IdsOf
      <3>2. (CHOOSE s \in t.added : s.id = r.id) = r
        BY <1>3, RowOfId
      <3> QED
        BY <3>1, <3>2
    <2> HIDE DEF v
    <2>5. DOMAIN vec' = IdsOf(table') /\ \A r \in table' : vec'[r.id] = r.text
      BY <1>2, <2>1, <2>2, <2>3, <2>4
    <2> QED
      BY <2>5 DEF EmbeddingMatches, IdsOf
  <1> HIDE DEF v
  <1>10. ASSUME NEW d \in Callers \ {c} PROVE Stands(call[d], txn[d], table')
    <2>1. Stands(call[d], txn[d], table) /\ Apart(t, txn[d])
      BY <1>1, OwnTxn
    <2>2. KeysOf(table') = KeysOf(table) \cup KeysOf(t.added)
      BY <1>2, KeysOfUnion
    <2> QED
      BY <1>2, <2>1, <2>2 DEF Stands, Apart
  <1>11. Drained'
    <2>1. CASE Ends(c, Failed)
      BY <2>1, Answers, TableEnds
    <2>2. CASE Ends(c, got)
      <3>1. x.skipped \in Int
        BY <1>1, OwnTxn DEF CallOK
      <3>2. n \in Int /\ n + x.skipped = x.skipped + Len(x.todo)
        BY <1>2, <1>3, <3>1
      <3>3. Range(x.todo) \subseteq KeysOf(Rows')
        BY <1>2, <1>3, KeysOfUnion, TableRows
      <3> QED
        BY <1>1, <1>2, <2>2, <3>1, <3>2, <3>3, TableRows, DrainedEnd DEF OnTable
    <2> QED
      BY <1>2, <2>1, <2>2
  <1> QED
    BY <1>2, <1>5, <1>7, <1>8, <1>9, <1>10, <1>11, ClosesTxn DEF TableStep, TableOK

LEMMA LocksRowStep ==
    ASSUME OnTable, NEW c \in Callers, LocksRow(c)
    PROVE  TableStep(c)
  <1>1. PICK t, x, id : t = txn[c] /\ x = call[c] /\ id = x.req.id
    OBVIOUS
  <1>2. /\ x.phase = "pending" /\ x.req.op = "update" /\ t.at = "none"
        /\ table' = table /\ vec' = vec
        /\ \/ Ends(c, Answer("absent", 0, 0, {})) /\ txn' = txn
           \/ \E r \in table :
                /\ r.id = id
                /\ id \notin Locked(c)
                /\ txn' = [txn EXCEPT ![c].at = "update", ![c].lock = {id}, ![c].read = r.text]
                /\ call' = call
    BY <1>1 DEF LocksRow, Asked, InTxn
  <1>3. TxnFits(c, x, t) /\ \A d \in Callers \ {c} : Apart(t, txn[d])
    BY <1>1, OwnTxn
  <1>4. CASE Ends(c, Answer("absent", 0, 0, {})) /\ txn' = txn
    <2>1. CallStep(c) /\ Drained'
      BY <1>4, Answers, TableEnds
    <2>2. TxnStep(c) /\ txn'[c] = t
      BY <1>1, <1>4 DEF OnTable, PgInv, TxnStep
    <2>3. TxnFits(c, call'[c], t)
      BY <1>2, <1>3 DEF TxnFits
    <2> QED
      BY <1>2, <2>1, <2>2, <2>3, HoldsNothing, SameTable DEF TableStep
  <1>5. ASSUME NEW r \in table, r.id = id, id \notin Locked(c), call' = call,
               txn' = [txn EXCEPT ![c].at = "update", ![c].lock = {id}, ![c].read = r.text]
        PROVE  TableStep(c)
    <2>1. CallStep(c) /\ call'[c] = x
      BY <1>1, <1>5, NoCallChange DEF OnTable
    <2>2. Drained'
      BY <1>1, <2>1, TableRows, DrainedStill DEF OnTable
    <2>3. PICK u : u = [t EXCEPT !.at = "update", !.lock = {id}, !.read = r.text]
      OBVIOUS
    <2>4. txn' = [txn EXCEPT ![c] = u]
      BY <1>1, <1>3, <1>5, <2>3 DEF TxnFits, IsTxn, OnTable, PgInv
    <2>5. IsTxn(u) /\ u.at = "update" /\ u.added = {} /\ u.lock = {id} /\ u.read = r.text
      BY <1>2, <1>3, <2>3 DEF TxnFits, IsTxn
    <2>6. TxnStep(c) /\ txn'[c] = u
      BY <2>4, OneTxn
    <2>7. TxnFits(c, call'[c], u) /\ Stands(call'[c], u, table')
      BY <1>1, <1>2, <1>5, <2>1, <2>5, NoTxnFields DEF TxnFits, Stands
    <2>8. ASSUME NEW d \in Callers \ {c} PROVE Apart(u, txn[d])
      BY <1>5, <2>5, NoTxnFields DEF Locked, Apart
    <2> QED
      BY <1>2, <2>1, <2>2, <2>6, <2>7, <2>8, SameTable DEF TableStep, TxnOK
  <1> QED
    BY <1>2, <1>4, <1>5

\* The row of an update is the one it read.
LEMMA LockedRow ==
    ASSUME OnTable, NEW c \in Callers, InTxn(c, "update")
    PROVE  /\ call[c].phase = "pending" /\ call[c].req.op = "update"
           /\ txn[c].lock = {call[c].req.id}
           /\ \A r \in table : r.id = call[c].req.id => r.text = txn[c].read
           /\ \E r \in table : r.id = call[c].req.id
  <1>1. TxnFits(c, call[c], txn[c]) /\ Stands(call[c], txn[c], table) /\ Proper(table)
    BY OwnTxn DEF OnTable, PgInv, TableOK
  <1> QED
    BY <1>1 DEF TxnFits, Stands, InTxn, Proper

LEMMA UpdatesRowStep ==
    ASSUME OnTable, NEW c \in Callers, UpdatesRow(c)
    PROVE  TableStep(c)
  <1>1. PICK t, x, req : t = txn[c] /\ x = call[c] /\ req = x.req
    OBVIOUS
  <1>2. PICK r \in table :
          /\ r.id = req.id
          /\ \/ /\ Ends(c, Answer("duplicate", 0, 0, {}))
                /\ Closes(c) /\ table' = table /\ vec' = vec
             \/ /\ KeyOf(Changed(req, r)) \notin Uncommitted(c)
                /\ table' = (table \ {r}) \cup {Changed(req, r)}
                /\ vec' = IF Changed(req, r).text # t.read
                          THEN [vec EXCEPT ![r.id] = Changed(req, r).text] ELSE vec
                /\ Ends(c, Answer("updated", 0, 0, {Changed(req, r)})) \/ Ends(c, Failed)
                /\ Closes(c)
    BY <1>1 DEF UpdatesRow, RollsBack
  <1>3. InTxn(c, "update")
    BY DEF UpdatesRow
  <1>4. t.lock = {req.id} /\ r.text = t.read
    BY <1>1, <1>2, <1>3, LockedRow
  <1>5. CASE Ends(c, Answer("duplicate", 0, 0, {})) /\ Closes(c) /\ table' = table /\ vec' = vec
    BY <1>5, Answers, TableEnds, ClosesTxn, SameTable DEF TableStep
  <1>6. CASE /\ KeyOf(Changed(req, r)) \notin Uncommitted(c)
             /\ table' = (table \ {r}) \cup {Changed(req, r)}
             /\ vec' = IF Changed(req, r).text # t.read
                       THEN [vec EXCEPT ![r.id] = Changed(req, r).text] ELSE vec
             /\ Ends(c, Answer("updated", 0, 0, {Changed(req, r)})) \/ Ends(c, Failed)
             /\ Closes(c)
    <2>1. PICK s : s = Changed(req, r)
      OBVIOUS
    <2>2. Proper(table) /\ AllSpent(table) /\ EmbeddingMatches
      BY DEF OnTable, PgInv, TableOK
    <2>3. IsRow(s) /\ s.id = r.id
      BY <2>1, <2>2, ChangedFields DEF Proper
    <2>4. CallStep(c) /\ Drained'
      BY <1>6, Answers, TableEnds
    <2>5. Proper(table') /\ IdsOf(table') = IdsOf(table)
      BY <1>6, <2>1, <2>2, <2>3, ProperChanged
    <2>6. AllSpent(table)'
      <3>1. \A p \in table : Spent(p.id)'
        BY <2>2, <2>4, AllSpentOn DEF OnTable
      <3> QED
        BY <1>6, <2>1, <2>3, <3>1 DEF AllSpent
    <2>7. EmbeddingMatches'
      <3>1. DOMAIN vec' = DOMAIN vec /\ DOMAIN vec = IdsOf(table) /\ r.id \in DOMAIN vec
        BY <1>6, <2>2 DEF EmbeddingMatches, IdsOf
      <3>2. vec'[r.id] = s.text
        <4>1. CASE s.text # t.read
          BY <1>6, <2>1, <3>1, <4>1
        <4>2. CASE s.text = t.read
          BY <1>4, <1>6, <2>1, <2>2, <4>2 DEF EmbeddingMatches
        <4> QED
          BY <4>1, <4>2
      <3>3. ASSUME NEW p \in table, p # r PROVE vec'[p.id] = p.text
        <4>1. p.id # r.id /\ p.id \in DOMAIN vec
          BY <2>2, <3>1, <3>3 DEF Proper, IdsOf
        <4>2. vec'[p.id] = vec[p.id]
          BY <1>6, <4>1
        <4> QED
          BY <2>2, <4>2 DEF EmbeddingMatches
      <3>4. \A p \in table' : vec'[p.id] = p.text
        BY <1>6, <2>1, <2>3, <3>2, <3>3
      <3>5. DOMAIN vec' = IdsOf(table')
        BY <2>5, <3>1
      <3> QED
        BY <3>4, <3>5 DEF EmbeddingMatches, IdsOf
    <2>8. ASSUME NEW d \in Callers \ {c} PROVE Stands(call[d], txn[d], table')
      <3>1. /\ Stands(call[d], txn[d], table) /\ Apart(t, txn[d])
            /\ TxnFits(d, call[d], txn[d])
        BY <1>1, OwnTxn
      <3>2. KeyOf(s) \notin KeysOf(txn[d].added)
        BY <1>6, <2>1 DEF Uncommitted
      <3>3. KeysOf(table') \subseteq KeysOf(table) \cup {KeyOf(s)}
        BY <1>6, <2>1 DEF KeysOf
      <3>4. txn[d].at = "insert" => KeysOf(txn[d].added) \cap KeysOf(table') = {}
        BY <3>1, <3>2, <3>3 DEF Stands
      <3>5. ASSUME txn[d].at = "update"
            PROVE  \E p \in table' : p.id = call[d].req.id /\ p.text = txn[d].read
        <4>1. PICK p \in table : p.id = call[d].req.id /\ p.text = txn[d].read
          BY <3>1, <3>5 DEF Stands
        <4>2. call[d].req.id # req.id
          BY <1>4, <3>1, <3>5 DEF TxnFits, Apart
        <4> QED
          BY <1>2, <1>6, <4>1, <4>2
      <3> QED
        BY <3>4, <3>5 DEF Stands
    <2> QED
      BY <1>6, <2>2, <2>4, <2>5, <2>6, <2>7, <2>8, ClosesTxn DEF TableStep, TableOK
  <1> QED
    BY <1>2, <1>5, <1>6

\* A step that keeps nothing locked and does not touch the table.
LEMMA Looking ==
    ASSUME OnTable, NEW c \in Callers, table' = table, vec' = vec, CallStep(c), Drained',
           NEW at \in {"none", "scoped", "merged"}, txn[c].at \in {"none", "scoped", "merged"},
           txn' = [txn EXCEPT ![c].at = at],
           at = "scoped" => call'[c].phase = "looked" /\ call'[c].req.op = "query",
           at = "merged" => call'[c].phase = "looked" /\ call'[c].req.op \in {"query", "list"}
    PROVE  TableStep(c)
  <1>1. TxnFits(c, call[c], txn[c])
    BY OwnTxn
  <1>2. PICK u : u = [txn[c] EXCEPT !.at = at]
    OBVIOUS
  <1>3. txn' = [txn EXCEPT ![c] = u]
    BY <1>2 DEF OnTable, PgInv
  <1>4. IsTxn(u) /\ u.at = at /\ u.added = {} /\ u.lock = {}
    BY <1>1, <1>2 DEF TxnFits, IsTxn
  <1>5. TxnStep(c) /\ txn'[c] = u
    BY <1>3, OneTxn
  <1>6. TxnFits(c, call'[c], u)
    BY <1>4, NoTxnFields DEF TxnFits
  <1>7. TxnOK(c)
    BY <1>4, <1>5, <1>6, HoldsNothing
  <1> QED
    BY <1>5, <1>7, SameTable DEF TableStep

\* FindsNearest, FindsScoped and Lists.
LEMMA SeesStep ==
    ASSUME OnTable, NEW c \in Callers, FindsNearest(c) \/ FindsScoped(c) \/ Lists(c)
    PROVE  TableStep(c)
  <1>1. /\ TxnFits(c, call[c], txn[c])
        /\ table' = table /\ vec' = vec
        /\ \E window : Sees(c, window)
    BY OwnTxn DEF FindsNearest, FindsScoped, Lists
  <1>2. PICK at \in {"scoped", "merged"} :
           /\ txn' = [txn EXCEPT ![c].at = at]
           /\ at = "scoped" => call[c].req.op = "query"
           /\ call[c].req.op \in {"query", "list"} /\ Busy(c)
           /\ txn[c].at \in {"none", "scoped"}
    BY <1>1 DEF FindsNearest, FindsScoped, Lists, Asked, InTxn, TxnFits, Busy
  <1>3. CallStep(c) /\ SameCall(call[c], call'[c]) /\ call'[c].phase = "looked"
    BY <1>1, <1>2, SeesCall DEF OnTable
  <1>4. Drained'
    BY <1>2, <1>3, TableRows, DrainedElsewhere DEF OnTable, SameCall
  <1> QED
    BY <1>1, <1>2, <1>3, <1>4, Looking DEF SameCall

LEMMA FoundStep ==
    ASSUME OnTable, NEW c \in Callers, Found(c)
    PROVE  TableStep(c)
  <1>1. Finds(c) /\ Closes(c) /\ table' = table /\ vec' = vec
    BY DEF Found
  <1>2. CallStep(c) /\ call'[c].phase = "ended" /\ call'[c].got.is = "found"
    BY <1>1, FindsCall DEF OnTable
  <1>3. Drained'
    BY <1>2, TableRows, DrainedElsewhere DEF OnTable
  <1> QED
    BY <1>1, <1>2, <1>3, ClosesTxn, SameTable DEF TableStep

LEMMA ChoosesRowsStep ==
    ASSUME OnTable, NEW c \in Callers, ChoosesRows(c)
    PROVE  TableStep(c)
  <1>1. PICK ids : call' = [call EXCEPT ![c].phase = "looked", ![c].snap = ids]
    BY DEF ChoosesRows
  <1>2. /\ call[c].phase = "pending" /\ call[c].req.op = "forget"
        /\ table' = table /\ vec' = vec /\ txn' = txn
    BY DEF ChoosesRows, Asked
  <1>3. CallStep(c) /\ SameCall(call[c], call'[c]) /\ call'[c].phase = "looked"
    <2>1. Busy(c) /\ call[c].req.op = "forget" /\ CallsOK
      BY <1>2 DEF OnTable, Busy
    <2> QED
      BY <1>1, <2>1, SelectsCall
  <1>4. Drained'
    BY <1>2, <1>3, TableRows, DrainedElsewhere DEF OnTable, SameCall
  <1>5. TxnFits(c, call[c], txn[c]) /\ txn[c].at = "none"
    BY <1>2, OwnTxn DEF TxnFits
  <1>6. TxnStep(c) /\ TxnOK(c)
    BY <1>2, <1>5, HoldsNothing DEF TxnFits, OnTable, PgInv, TxnStep
  <1> QED
    BY <1>2, <1>3, <1>4, <1>6, SameTable DEF TableStep

LEMMA DeletesRowsStep ==
    ASSUME OnTable, NEW c \in Callers, DeletesRows(c)
    PROVE  TableStep(c)
  <1>1. PICK gone : gone = {r \in Selected(call[c].req, table) : r.id \in call[c].snap}
    OBVIOUS
  <1>2. /\ call[c].phase = "looked" /\ call[c].req.op = "forget"
        /\ call[c].snap \cap Locked(c) = {}
        /\ table' = table \ gone
        /\ vec' = [id \in DOMAIN vec \ IdsOf(gone) |-> vec[id]]
        /\ Ends(c, Answer("deleted", Cardinality(gone), 0, {})) \/ Ends(c, Failed)
        /\ txn' = txn
    BY <1>1 DEF DeletesRows, Asked
  <1>3. gone \subseteq table /\ \A r \in gone : r.id \in call[c].snap
    BY <1>1 DEF Selected
  <1>4. CallStep(c) /\ Drained'
    BY <1>2, Answers, TableEnds
  <1>5. Proper(table) /\ AllSpent(table) /\ EmbeddingMatches
    BY DEF OnTable, PgInv, TableOK
  <1>6. Proper(table')
    BY <1>2, <1>5, ProperSubset
  <1>7. AllSpent(table)'
    BY <1>2, <1>4, <1>5, AllSpentOn DEF OnTable, AllSpent
  <1>8. \A r \in table \ gone : r.id \notin IdsOf(gone)
    BY <1>3, <1>5 DEF Proper, IdsOf
  <1>9. EmbeddingMatches'
    <2>1. DOMAIN vec = IdsOf(table) /\ DOMAIN vec' = DOMAIN vec \ IdsOf(gone)
      BY <1>2, <1>5 DEF EmbeddingMatches
    <2>2. IdsOf(table \ gone) = IdsOf(table) \ IdsOf(gone)
      BY <1>3, <1>8 DEF IdsOf
    <2>3. ASSUME NEW r \in table \ gone PROVE vec'[r.id] = r.text
      <3>1. r.id \in DOMAIN vec \ IdsOf(gone)
        BY <1>8, <2>1 DEF IdsOf
      <3> QED
        BY <1>2, <1>5, <3>1 DEF EmbeddingMatches
    <2>4. DOMAIN vec' = IdsOf(table') /\ \A r \in table' : vec'[r.id] = r.text
      BY <1>2, <2>1, <2>2, <2>3
    <2> QED
      BY <2>4 DEF EmbeddingMatches, IdsOf
  <1>10. TxnFits(c, call[c], txn[c]) /\ txn[c].at = "none"
    BY <1>2, OwnTxn DEF TxnFits
  <1>11. TxnStep(c) /\ TxnOK(c)
    BY <1>2, <1>10, HoldsNothing DEF TxnFits, OnTable, PgInv, TxnStep
  <1>12. ASSUME NEW d \in Callers \ {c} PROVE Stands(call[d], txn[d], table')
    <2>1. Stands(call[d], txn[d], table) /\ TxnFits(d, call[d], txn[d])
      BY OwnTxn
    <2>2. KeysOf(table') \subseteq KeysOf(table)
      BY <1>2 DEF KeysOf
    <2>3. ASSUME txn[d].at = "update"
          PROVE  \E p \in table' : p.id = call[d].req.id /\ p.text = txn[d].read
      <3>1. PICK p \in table : p.id = call[d].req.id /\ p.text = txn[d].read
        BY <2>1, <2>3 DEF Stands
      <3>2. p.id \in txn[d].lock
        BY <2>1, <2>3, <3>1 DEF TxnFits
      <3>3. p.id \in Locked(c)
        BY <3>2 DEF Locked
      <3>4. p \notin gone
        BY <1>2, <1>3, <3>3
      <3> QED
        BY <1>2, <3>1, <3>4
    <2> QED
      BY <2>1, <2>2, <2>3 DEF Stands
  <1> QED
    BY <1>4, <1>5, <1>6, <1>7, <1>9, <1>11, <1>12 DEF TableStep, TableOK

LEMMA PgKeeps ==
    ASSUME CallsOK, Drained, PgInv, NEW c \in Callers, PostgresStore(c)
    PROVE  CallsOK' /\ Drained' /\ PgInv' /\ store' = store
  <1>1. OnTable /\ PgStep(c) /\ store' = store
    BY DEF OnTable, PostgresStore, PgStep
  <1>2. TableStep(c)
    BY <1>1, AbortStep, PgAsksStep, ExistingKeysStep, EmbedsStep, InsertsItemStep, CommitsStep,
       LocksRowStep, UpdatesRowStep, SeesStep, FoundStep, ChoosesRowsStep, DeletesRowsStep
       DEF PgStep, Proceeds
  <1> QED
    BY <1>1, <1>2, TableStepKeeps DEF OnTable

-----------------------------------------------------------------------------
(* Every state *)

KnowledgeInv ==
    /\ CallsOK /\ Drained
    /\ IF store = "postgres" THEN PgInv ELSE FileInv

LEMMA FirstCalls ==
    ASSUME call = [c \in Callers |-> Idle], ever = KeysOf(Rows)
    PROVE  CallsOK /\ Drained /\ \A c \in Callers : call[c] = Idle
  <1>1. \A c \in Callers : call[c] = Idle
    OBVIOUS
  <1>2. CallsOK
    BY <1>1, IdleOK DEF CallsOK
  <1>3. \A c \in Callers : Counted(c) /\ Told(c)
    BY <1>1, IdleCall DEF Counted, Told, Stored
  <1> QED
    BY <1>1, <1>2, <1>3 DEF Drained

LEMMA OldOnes ==
    ASSUME NEW rows, StoredBefore(rows)
    PROVE  Proper(rows) /\ AllSpent(rows)
  BY DEF StoredBefore, Proper, IsRow, AllSpent, Spent

LEMMA FirstTable ==
    ASSUME NEW rows \in OldRows, StartsFromTable(rows), store = "postgres"
    PROVE  KnowledgeInv
  <1>1. /\ table = rows
        /\ vec = [id \in IdsOf(rows) |-> (CHOOSE r \in rows : r.id = id).text]
        /\ txn = [c \in Callers |-> NoTxn]
        /\ call = [c \in Callers |-> Idle] /\ ever = KeysOf(rows)
    BY DEF StartsFromTable
  <1>2. StoredBefore(rows)
    BY KnowledgeAssumption
  <1>3. Proper(rows) /\ AllSpent(rows)
    BY <1>2, OldOnes
  <1>4. CallsOK /\ Drained /\ \A c \in Callers : call[c] = Idle
    BY <1>1, FirstCalls DEF Rows
  <1>5. EmbeddingMatches
    <2>1. ASSUME NEW r \in rows PROVE vec[r.id] = r.text
      <3>1. (CHOOSE s \in rows : s.id = r.id) = r /\ r.id \in IdsOf(rows)
        BY <1>3, RowOfId DEF IdsOf
      <3> QED
        BY <1>1, <3>1
    <2> QED
      BY <1>1, <2>1 DEF EmbeddingMatches
  <1>6. ASSUME NEW c \in Callers
        PROVE  txn[c] = NoTxn /\ TxnFits(c, call[c], txn[c]) /\ Stands(call[c], txn[c], table)
    BY <1>1, NoTxnFields DEF TxnFits, Stands
  <1>7. \A c, d \in Callers : Apart(txn[c], txn[d])
    BY <1>6, NoTxnFields DEF Apart
  <1>8. PgInv
    BY <1>1, <1>3, <1>5, <1>6, <1>7 DEF PgInv, TableOK
  <1> QED
    BY <1>4, <1>8 DEF KnowledgeInv

LEMMA FirstFile ==
    ASSUME NEW f \in OldFiles, StartsFrom(f), store # "postgres"
    PROVE  KnowledgeInv
  <1>1. /\ file = f /\ work = [c \in Callers |-> Rest]
        /\ call = [c \in Callers |-> Idle] /\ ever = KeysOf(f.rows)
    BY DEF StartsFrom
  <1>2. /\ f = Files(f.rows, f.vecs, f.space) /\ StoredBefore(f.rows)
        /\ DOMAIN f.vecs = IdsOf(f.rows)
        /\ f.space # Unmarked => \A r \in f.rows : f.vecs[r.id] = Embedded(r, f.space)
    BY KnowledgeAssumption
  <1>3. FileOK(f) /\ AllSpent(f.rows)
    BY <1>2, OldOnes DEF FileOK
  <1>4. CallsOK /\ Drained
    BY <1>1, FirstCalls DEF Rows
  <1>5. ASSUME NEW c \in Callers PROVE WorkOK(c)
    <2>1. work[c] = Rest /\ ~IsSaving(Rest)
      BY <1>1, RestFields DEF IsSaving
    <2>2. Fits(c, call[c], Rest)
      BY <2>1, RestFields, EmptyFiles DEF Fits
    <2> QED
      BY <2>1, <2>2, RestFields, EmptyFiles DEF WorkOK
  <1>6. FileInv
    BY <1>1, <1>3, <1>5 DEF FileInv
  <1> QED
    BY <1>4, <1>6 DEF KnowledgeInv

LEMMA KnowledgeInit == Init => KnowledgeInv
  BY FirstTable, FirstFile DEF Init

LEMMA KnowledgeNext == KnowledgeInv /\ [Next]_vars => KnowledgeInv'
  <1> SUFFICES ASSUME KnowledgeInv, [Next]_vars PROVE KnowledgeInv'
    OBVIOUS
  <1>1. ASSUME NEW c \in Callers, FileStore(c) PROVE KnowledgeInv'
    <2>1. store # "postgres" /\ CallsOK /\ Drained /\ FileInv
      BY <1>1 DEF FileStore, KnowledgeInv
    <2> QED
      BY <1>1, <2>1, SyncKeeps DEF KnowledgeInv
  <1>2. ASSUME NEW c \in Callers, PostgresStore(c) PROVE KnowledgeInv'
    <2>1. store = "postgres" /\ CallsOK /\ Drained /\ PgInv
      BY <1>2 DEF PostgresStore, KnowledgeInv
    <2> QED
      BY <1>2, <2>1, PgKeeps DEF KnowledgeInv
  <1>3. CASE UNCHANGED vars
    <2>1. CallsOK' = CallsOK
      BY <1>3 DEF vars, CallsOK, CallOK, IsCall
    <2>2. Drained' = Drained
      BY <1>3 DEF vars, Drained, Counted, Told, Stored, Remaining, Rows, KeysOf, KeyOf, Key
    <2>3. PgInv' = PgInv
      BY <1>3 DEF vars, PgInv, TableOK, AllSpent, Spent, EmbeddingMatches, IdsOf
    <2>4. FileInv' = FileInv
      BY <1>3 DEF vars, FileInv, WorkOK, AllSpent, Spent, Own
    <2> QED
      BY <1>3, <2>1, <2>2, <2>3, <2>4 DEF vars, KnowledgeInv
  <1> QED
    BY <1>1, <1>2, <1>3 DEF Next

THEOREM KnowledgeInvariant == Spec => []KnowledgeInv
  BY KnowledgeInit, KnowledgeNext, PTL DEF Spec

\* Every stored learning has the one embedding of the text it has now, in the file
\* and in Postgres, whoever else writes and whatever model opens the file
\* (sqlite_store._open, update_learning; ingest.update).
THEOREM EmbeddingsMatchTexts == Spec => []VectorsOfTheirText
  <1>1. KnowledgeInv => VectorsOfTheirText
    BY DEF KnowledgeInv, VectorsOfTheirText, PgInv, TableOK, FileInv, FileOK, VectorsMatch
  <1> QED
    BY <1>1, KnowledgeInvariant, PTL

\* A caller told that its whole batch is stored or skipped has had every item of it
\* in the store (ingest.partition; the agent's drain of a batch).
THEOREM DrainedBatchesStored == Spec => []DrainedIsStored
  <1>1. KnowledgeInv => DrainedIsStored
    BY DEF KnowledgeInv, Drained, Told, DrainedIsStored
  <1> QED
    BY <1>1, KnowledgeInvariant, PTL

-----------------------------------------------------------------------------
(* The abstract table *)

\* What KnowledgeBase shares with the stores is the same in both.
LEMMA SameSets ==
    /\ \A S : Base!Cardinality(S) = Cardinality(S)
    /\ \A f : Base!Range(f) = Range(f)
    /\ \A s, i : Base!RemoveAt(s, i) = RemoveAt(s, i)
  <1>1. ASSUME NEW S PROVE Base!Cardinality(S) = Cardinality(S)
    BY DEF Base!Cardinality, Cardinality
  <1>2. ASSUME NEW f PROVE Base!Range(f) = Range(f)
    BY DEF Base!Range, Range
  <1>3. ASSUME NEW s, NEW i PROVE Base!RemoveAt(s, i) = RemoveAt(s, i)
    BY DEF Base!RemoveAt, RemoveAt
  <1> QED
    BY <1>1, <1>2, <1>3

LEMMA SameData ==
    /\ \A rows : Base!KeysOf(rows) = KeysOf(rows) /\ Base!IdsOf(rows) = IdsOf(rows)
    /\ \A is, n, m, rows : Base!Answer(is, n, m, rows) = Answer(is, n, m, rows)
    /\ Base!Failed = Failed /\ Base!Silence = Silence /\ Base!Idle = Idle /\ Base!Query = Query
    /\ \A req, r : Base!Changed(req, r) = Changed(req, r)
    /\ \A req, rows : Base!Selected(req, rows) = Selected(req, rows)
    /\ \A r : Base!Dark(r) = Dark(r) /\ Base!InScope(r) = InScope(r)
    /\ \A c, k : Base!MintedRow(c, k) = MintedRow(c, k)
  <1>1. \A rows : Base!KeysOf(rows) = KeysOf(rows) /\ Base!IdsOf(rows) = IdsOf(rows)
    BY DEF Base!KeysOf, KeysOf, Base!KeyOf, KeyOf, Base!Key, Key, Base!IdsOf, IdsOf
  <1>2. \A is, n, m, rows : Base!Answer(is, n, m, rows) = Answer(is, n, m, rows)
    BY DEF Base!Answer, Answer
  <1>3. Base!Failed = Failed /\ Base!Silence = Silence /\ Base!Query = Query
    BY <1>2 DEF Base!Failed, Failed, Base!Silence, Silence, Base!Query, Query
  <1>4. Base!Idle = Idle
    BY <1>3 DEF Base!Idle, Idle
  <1>5. \A req, r : Base!Changed(req, r) = Changed(req, r)
    BY DEF Base!Changed, Changed
  <1>6. \A req, rows : Base!Selected(req, rows) = Selected(req, rows)
    BY DEF Base!Selected, Selected
  <1>7. \A r : Base!Dark(r) = Dark(r) /\ Base!InScope(r) = InScope(r)
    BY DEF Base!Dark, Dark, Base!InScope, InScope
  <1>8. \A c, k : Base!MintedRow(c, k) = MintedRow(c, k)
    BY DEF Base!MintedRow, MintedRow
  <1> QED
    BY <1>1, <1>2, <1>3, <1>4, <1>5, <1>6, <1>7, <1>8

LEMMA SameChoices ==
    /\ \A n, S : Base!AtMost(n, S) = AtMost(n, S)
    /\ \A S, A : Base!NearestFirst(S, A) = NearestFirst(S, A)
    /\ \A S, k : Base!Nearest(S, k) = Nearest(S, k)
    /\ \A items, existing, cap : Base!partition(items, existing, cap) = partition(items, existing, cap)
    /\ \A req, r, rows : Base!Clashes(req, r, rows) = Clashes(req, r, rows)
  <1>1. \A n, S : Base!AtMost(n, S) = AtMost(n, S)
    BY SameSets DEF Base!AtMost, AtMost
  <1>2. \A S, A : Base!NearestFirst(S, A) = NearestFirst(S, A)
    BY DEF Base!NearestFirst, NearestFirst
  <1>3. \A S, k : Base!Nearest(S, k) = Nearest(S, k)
    BY <1>1, <1>2, SameSets DEF Base!Nearest, Nearest
  <1>4. ASSUME NEW items, NEW existing, NEW cap
        PROVE  Base!partition(items, existing, cap) = partition(items, existing, cap)
    <2>1. Base!NewItems(items, existing) = NewItems(items, existing)
      BY DEF Base!NewItems, NewItems
    <2>2. \A new : Base!FirstOf(items, new, cap) = FirstOf(items, new, cap)
      BY DEF Base!FirstOf, FirstOf, Base!AtMost, AtMost, Base!UpTo, UpTo,
             Base!Cardinality, Cardinality
    <2> QED
      BY <2>1, <2>2, SameSets DEF Base!partition, partition
  <1>5. \A req, r, rows : Base!Clashes(req, r, rows) = Clashes(req, r, rows)
    BY SameData DEF Base!Clashes, Clashes, Base!KeyOf, KeyOf, Base!Key, Key
  <1> QED
    BY <1>1, <1>2, <1>3, <1>4, <1>5

LEMMA SameCalls ==
    ASSUME NEW c \in Callers
    PROVE  /\ Base!Busy(c) = Busy(c)
           /\ \A got : Base!Ends(c, got) = Ends(c, got)
           /\ \A rows : Base!LooksAt(c, rows) = LooksAt(c, rows)
           /\ \A window : Base!Sees(c, window) = Sees(c, window)
           /\ Base!Begin(c) = Begin(c) /\ Base!SendAgain(c) = SendAgain(c)
           /\ Base!Finds(c) = Finds(c)
  <1>1. Base!Busy(c) = Busy(c)
    BY DEF Base!Busy, Busy
  <1>2. ASSUME NEW got PROVE Base!Ends(c, got) = Ends(c, got)
    BY DEF Base!Ends, Ends
  <1>3. ASSUME NEW rows PROVE Base!LooksAt(c, rows) = LooksAt(c, rows)
    BY SameData, SameChoices DEF Base!LooksAt, LooksAt
  <1>4. ASSUME NEW window PROVE Base!Sees(c, window) = Sees(c, window)
    BY DEF Base!Sees, Sees
  <1>5. Base!DrainDue(c) = DrainDue(c)
    BY DEF Base!DrainDue, DrainDue, Base!Stored, Stored, Base!Remaining, Remaining
  <1>6. Base!Begin(c) = Begin(c)
    BY <1>5, SameData DEF Base!Begin, Begin
  <1>7. Base!SendAgain(c) = SendAgain(c)
    BY <1>5, SameData DEF Base!SendAgain, SendAgain
  <1>8. Base!Finds(c) = Finds(c)
    BY <1>2, SameData, SameChoices DEF Base!Finds, Finds
  <1> QED
    BY <1>1, <1>2, <1>3, <1>4, <1>6, <1>7, <1>8

\* What c does to the abstract table.
BaseStep(c) ==
    \/ Base!BaseAsk(c) \/ Base!BaseLook(c) \/ Base!BaseSkip(c) \/ Base!BaseStore(c)
    \/ Base!BaseUpdate(c) \/ Base!BaseSelect(c) \/ Base!BaseRemove(c) \/ Base!BaseList(c)
    \/ Base!BaseFind(c) \/ Base!BaseFindScoped(c) \/ Base!BaseFound(c) \/ Base!BaseFail(c)

Stutters == Rows' = Rows /\ call' = call

LEMMA AsLook ==
    ASSUME NEW c \in Callers, call[c].phase = "pending", call[c].req.op = "ingest",
           LooksAt(c, Rows), Rows' = Rows
    PROVE  BaseStep(c)
  BY SameCalls DEF BaseStep, Base!BaseLook, Base!Is

LEMMA AsSkip ==
    ASSUME NEW c \in Callers, call[c].phase = "looked", call[c].req.op = "ingest",
           NEW i \in DOMAIN call[c].todo, call[c].todo[i] \in KeysOf(Rows), Rows' = Rows,
           call' = [call EXCEPT ![c].todo = RemoveAt(@, i), ![c].skipped = @ + 1]
    PROVE  BaseStep(c)
  <1>1. Base!KeysOf(Rows) = KeysOf(Rows) /\ Base!RemoveAt(call[c].todo, i) = RemoveAt(call[c].todo, i)
    BY SameSets, SameData
  <1>2. Base!BaseSkip(c)
    BY <1>1 DEF Base!BaseSkip, Base!Is
  <1> QED
    BY <1>2 DEF BaseStep

LEMMA AsStore ==
    ASSUME NEW c \in Callers, call[c].phase = "looked", call[c].req.op = "ingest",
           NEW K, K = Range(call[c].todo) \ KeysOf(Rows),
           Rows' = Rows \cup MintedOf(c, K),
           \/ Ends(c, Answer("stored", Cardinality(K),
                             call[c].skipped + Len(call[c].todo) - Cardinality(K), {}))
           \/ Ends(c, Failed)
    PROVE  BaseStep(c)
  <1>1. Base!Range(call[c].todo) \ Base!KeysOf(Rows) = K
    BY SameSets, SameData
  <1>2. {Base!MintedRow(c, k) : k \in K} = MintedOf(c, K)
    BY SameData DEF MintedOf
  <1>3. Base!Cardinality(K) = Cardinality(K)
    BY SameSets
  <1>4. PICK told : told = Answer("stored", Cardinality(K),
                                  call[c].skipped + Len(call[c].todo) - Cardinality(K), {})
    OBVIOUS
  <1>5. told = Base!Answer("stored", Base!Cardinality(K),
                           call[c].skipped + Len(call[c].todo) - Base!Cardinality(K), {})
    BY <1>3, <1>4, SameData
  <1>6. Base!Ends(c, told) \/ Base!Ends(c, Base!Failed)
    BY <1>4, SameData, SameCalls
  <1>7. Base!BaseStore(c)
    BY <1>1, <1>2, <1>5, <1>6 DEF Base!BaseStore, Base!Is
  <1> QED
    BY <1>7 DEF BaseStep

LEMMA AsUpdate ==
    ASSUME NEW c \in Callers, call[c].phase = "pending", call[c].req.op = "update",
           NEW req, req = call[c].req,
           \/ /\ {r \in Rows : r.id = req.id} = {}
              /\ Ends(c, Answer("absent", 0, 0, {})) /\ Rows' = Rows
           \/ \E r \in {r \in Rows : r.id = req.id} :
                \/ /\ Clashes(req, r, Rows)
                   /\ Ends(c, Answer("duplicate", 0, 0, {})) /\ Rows' = Rows
                \/ /\ ~Clashes(req, r, Rows)
                   /\ Rows' = (Rows \ {r}) \cup {Changed(req, r)}
                   /\ Ends(c, Answer("updated", 0, 0, {Changed(req, r)})) \/ Ends(c, Failed)
    PROVE  BaseStep(c)
  <1>1. \A r : Base!Clashes(req, r, Rows) = Clashes(req, r, Rows) /\ Base!Changed(req, r) = Changed(req, r)
    BY SameData, SameChoices
  <1>2. \A is, rows : Base!Ends(c, Base!Answer(is, 0, 0, rows)) = Ends(c, Answer(is, 0, 0, rows))
    BY SameData, SameCalls
  <1>3. Base!Ends(c, Base!Failed) = Ends(c, Failed)
    BY SameData, SameCalls
  <1>4. Base!BaseUpdate(c)
    <2>1. CASE /\ {r \in Rows : r.id = req.id} = {}
               /\ Ends(c, Answer("absent", 0, 0, {})) /\ Rows' = Rows
      BY <1>2, <2>1 DEF Base!BaseUpdate, Base!Is
    <2>2. ASSUME NEW r \in {r \in Rows : r.id = req.id}, Clashes(req, r, Rows),
                 Ends(c, Answer("duplicate", 0, 0, {})), Rows' = Rows
          PROVE  Base!BaseUpdate(c)
      BY <1>1, <1>2, <2>2 DEF Base!BaseUpdate, Base!Is
    <2>3. ASSUME NEW r \in {r \in Rows : r.id = req.id}, ~Clashes(req, r, Rows),
                 Rows' = (Rows \ {r}) \cup {Changed(req, r)},
                 Ends(c, Answer("updated", 0, 0, {Changed(req, r)})) \/ Ends(c, Failed)
          PROVE  Base!BaseUpdate(c)
      BY <1>1, <1>2, <1>3, <2>3 DEF Base!BaseUpdate, Base!Is
    <2> QED
      BY <2>1, <2>2, <2>3
  <1> QED
    BY <1>4 DEF BaseStep

LEMMA AsSelect ==
    ASSUME NEW c \in Callers, Busy(c), call[c].req.op = "forget", Rows' = Rows,
           call' = [call EXCEPT ![c].phase = "looked",
                                ![c].snap = IdsOf(Selected(call[c].req, Rows))]
    PROVE  BaseStep(c)
  <1>1. Base!IdsOf(Base!Selected(call[c].req, Rows)) = IdsOf(Selected(call[c].req, Rows))
    BY SameData
  <1>2. Base!BaseSelect(c)
    BY <1>1, SameCalls DEF Base!BaseSelect
  <1> QED
    BY <1>2 DEF BaseStep

LEMMA AsRemove ==
    ASSUME NEW c \in Callers, call[c].phase = "looked", call[c].req.op = "forget",
           NEW gone, gone = {r \in Selected(call[c].req, Rows) : r.id \in call[c].snap},
           Rows' = Rows \ gone,
           Ends(c, Answer("deleted", Cardinality(gone), 0, {})) \/ Ends(c, Failed)
    PROVE  BaseStep(c)
  <1>1. gone = {r \in Base!Selected(call[c].req, Rows) : r.id \in call[c].snap}
    BY SameData
  <1>2. Base!Ends(c, Base!Answer("deleted", Base!Cardinality(gone), 0, {})) \/ Base!Ends(c, Base!Failed)
    BY SameSets, SameData, SameCalls
  <1>3. Base!BaseRemove(c)
    BY <1>1, <1>2 DEF Base!BaseRemove, Base!Is
  <1> QED
    BY <1>3 DEF BaseStep

\* The nearest of a set, at least candidate_k when there are so many.
LEMMA AsFind ==
    ASSUME NEW c \in Callers, call[c].phase = "pending", call[c].req.op = "query",
           NEW S, S = {r \in Rows : ~Dark(r)}, NEW A \in SUBSET S,
           Cardinality(A) >= AtMost(candidate_k, S), NearestFirst(S, A),
           Sees(c, A), Rows' = Rows
    PROVE  BaseStep(c)
  <1>1. S = {r \in Rows : ~Base!Dark(r)}
    BY SameData
  <1>2. Base!Cardinality(A) >= Base!AtMost(candidate_k, S) /\ Base!NearestFirst(S, A)
    BY SameSets, SameChoices
  <1>3. A \in Base!Window(S)
    BY <1>2 DEF Base!Window
  <1>4. Base!BaseFind(c)
    BY <1>1, <1>3, SameCalls DEF Base!BaseFind, Base!Is
  <1> QED
    BY <1>4 DEF BaseStep

LEMMA AsFindScoped ==
    ASSUME NEW c \in Callers, call[c].phase = "looked", call[c].req.op = "query",
           NEW scoped \in Nearest({r \in Rows : ~Dark(r) /\ Scope[r.text] # "all"}, candidate_k),
           Sees(c, {r \in call[c].got.rows : r.id \notin IdsOf(scoped)} \cup scoped),
           Rows' = Rows
    PROVE  BaseStep(c)
  <1>1. {r \in Rows : ~Base!Dark(r) /\ Scope[r.text] # "all"} = {r \in Rows : ~Dark(r) /\ Scope[r.text] # "all"}
    BY SameData
  <1>2. scoped \in Base!Nearest({r \in Rows : ~Base!Dark(r) /\ Scope[r.text] # "all"}, candidate_k)
    BY <1>1, SameChoices
  <1>3. Base!Sees(c, {r \in call[c].got.rows : r.id \notin Base!IdsOf(scoped)} \cup scoped)
    BY SameData, SameCalls
  <1>4. Base!BaseFindScoped(c)
    BY <1>2, <1>3 DEF Base!BaseFindScoped, Base!Is
  <1> QED
    BY <1>4 DEF BaseStep

LEMMA AsList ==
    ASSUME NEW c \in Callers, call[c].phase = "pending", call[c].req.op = "list",
           Sees(c, Rows), Rows' = Rows
    PROVE  BaseStep(c)
  BY SameCalls DEF BaseStep, Base!BaseList, Base!Is

\* BaseFound, BaseFail and BaseAsk.
LEMMA AsEnd ==
    ASSUME NEW c \in Callers, Rows' = Rows,
           Finds(c) \/ (Busy(c) /\ Ends(c, Failed)) \/ Begin(c) \/ SendAgain(c)
    PROVE  BaseStep(c)
  <1>1. Base!Ends(c, Base!Failed) = Ends(c, Failed)
    BY SameData, SameCalls
  <1> QED
    BY <1>1, SameCalls DEF BaseStep, Base!BaseFound, Base!BaseFail, Base!BaseAsk

\* The window of a file's query, cleared of the dark rows, holds the nearest that
\* are not dark.
LEMMA WidenedWindow ==
    ASSUME NEW N, IsFiniteSet(N), NEW knn \in Nearest(N, Widened(N)),
           NEW S, S = {r \in N : ~Dark(r)}, NEW A, A = {r \in knn : ~Dark(r)}
    PROVE  A \in SUBSET S /\ Cardinality(A) >= AtMost(candidate_k, S) /\ NearestFirst(S, A)
  <1>1. PICK D, W : D = {r \in N : Dark(r)} /\ W = candidate_k + Cardinality(D)
    OBVIOUS
  <1>2. knn \in SUBSET N /\ Cardinality(knn) = AtMost(W, N) /\ NearestFirst(N, knn)
    BY <1>1 DEF Nearest, Widened
  <1>3. A \in SUBSET S /\ NearestFirst(S, A)
    BY <1>2 DEF NearestFirst
  <1>4. candidate_k \in Nat
    BY KnowledgeAssumption
  <1>5. /\ IsFiniteSet(D) /\ IsFiniteSet(S) /\ IsFiniteSet(knn) /\ IsFiniteSet(A)
        /\ S \in SUBSET N /\ D \in SUBSET N
    <2>1. S \in SUBSET N /\ D \in SUBSET N /\ A \in SUBSET knn
      BY <1>1
    <2> QED
      BY <1>2, <2>1, FS_Subset
  <1>6. /\ Cardinality(N) \in Nat /\ Cardinality(D) \in Nat /\ Cardinality(S) \in Nat
        /\ Cardinality(knn) \in Nat /\ Cardinality(A) \in Nat
    BY <1>5, FS_CardinalityType
  <1>7. CASE Cardinality(N) < W
    <2>1. Cardinality(knn) = Cardinality(N)
      BY <1>2, <1>7 DEF AtMost
    <2>2. knn = N
      BY <1>2, <2>1, FS_Subset
    <2>3. A = S
      BY <2>2
    <2> QED
      BY <1>3, <1>4, <1>6, <2>3 DEF AtMost
  <1>8. CASE ~(Cardinality(N) < W)
    <2>1. Cardinality(knn) = W
      BY <1>2, <1>8 DEF AtMost
    <2>2. PICK B : B = {r \in knn : Dark(r)}
      OBVIOUS
    <2>3. B \in SUBSET D /\ A \cap B = {} /\ knn = A \cup B
      BY <1>1, <1>2, <2>2
    <2>4. IsFiniteSet(B) /\ Cardinality(B) <= Cardinality(D) /\ Cardinality(B) \in Nat
      BY <1>5, <2>3, FS_Subset, FS_CardinalityType
    <2>5. Cardinality(A \cap B) = 0
      BY <2>3, FS_EmptySet
    <2>6. Cardinality(knn) = Cardinality(A) + Cardinality(B) - Cardinality(A \cap B)
      BY <1>5, <2>3, <2>4, FS_Union
    <2>7. Cardinality(A) >= candidate_k
      BY <1>1, <1>4, <1>6, <2>1, <2>4, <2>5, <2>6
    <2>8. Cardinality(A) >= AtMost(candidate_k, S)
      BY <1>4, <1>6, <2>7 DEF AtMost
    <2> QED
      BY <1>3, <2>8
  <1> QED
    BY <1>7, <1>8

\* What a saved copy does to the table.
LEMMA SavedAs ==
    ASSUME OnFile, NEW c \in Callers, IsSaving(work[c]), file = work[c].base,
           file' = work[c].next, Ends(c, work[c].told) \/ Ends(c, Failed)
    PROVE  BaseStep(c)
  <1>1. PICK w, x : w = work[c] /\ x = call[c]
    OBVIOUS
  <1>2. Effect(c, x, w) /\ Rows = w.base.rows /\ Rows' = w.next.rows
    BY <1>1, FileRows DEF OnFile, FileInv, WorkOK, Fits
  <1>3. ASSUME IngestEffect(c, x, w) PROVE BaseStep(c)
    <2>1. PICK K : K = Range(x.todo) \ KeysOf(w.base.rows)
      OBVIOUS
    <2>2. /\ x.req.op = "ingest" /\ x.phase = "looked"
          /\ w.next.rows = w.base.rows \cup MintedBy(c, x, K)
          /\ w.told = Answer("stored", Cardinality(K), x.skipped + Len(x.todo) - Cardinality(K), {})
      BY <1>3, <2>1 DEF IngestEffect
    <2>3. MintedBy(c, x, K) = MintedOf(c, K)
      BY <1>1 DEF MintedBy, MintedOf, MintedRow
    <2>4. /\ call[c].phase = "looked" /\ call[c].req.op = "ingest"
          /\ K = Range(call[c].todo) \ KeysOf(Rows) /\ Rows' = Rows \cup MintedOf(c, K)
      BY <1>1, <1>2, <2>1, <2>2, <2>3
    <2>5. \/ Ends(c, Answer("stored", Cardinality(K),
                            call[c].skipped + Len(call[c].todo) - Cardinality(K), {}))
          \/ Ends(c, Failed)
      BY <1>1, <2>2
    <2> QED
      BY <2>4, <2>5, AsStore
  <1>4. ASSUME UpdateEffect(x, w) PROVE BaseStep(c)
    <2>1. x.req.op = "update" /\ x.phase = "pending"
      BY <1>4 DEF UpdateEffect
    <2>2. CASE /\ {r \in w.base.rows : r.id = x.req.id} = {}
               /\ w.next.rows = w.base.rows
               /\ w.told = Answer("absent", 0, 0, {})
      <3>1. CASE Ends(c, Failed)
        BY <1>1, <1>2, <2>1, <2>2, <3>1, AsEnd DEF Busy
      <3>2. CASE Ends(c, w.told)
        BY <1>1, <1>2, <2>1, <2>2, <3>2, AsUpdate
      <3> QED
        BY <1>1, <3>1, <3>2
    <2>3. ASSUME NEW r \in {r \in w.base.rows : r.id = x.req.id},
                 ~Clashes(x.req, r, w.base.rows),
                 w.next.rows = (w.base.rows \ {r}) \cup {Changed(x.req, r)},
                 w.told = Answer("updated", 0, 0, {Changed(x.req, r)})
          PROVE  BaseStep(c)
      <3>1. PICK req : req = x.req
        OBVIOUS
      <3>2. /\ r \in {p \in Rows : p.id = req.id} /\ ~Clashes(req, r, Rows)
            /\ Rows' = (Rows \ {r}) \cup {Changed(req, r)}
            /\ Ends(c, Answer("updated", 0, 0, {Changed(req, r)})) \/ Ends(c, Failed)
        BY <1>1, <1>2, <2>3, <3>1
      <3>3. call[c].phase = "pending" /\ call[c].req.op = "update" /\ req = call[c].req
        BY <1>1, <2>1, <3>1
      <3> QED
        BY <3>2, <3>3, AsUpdate
    <2> QED
      BY <1>4, <2>2, <2>3 DEF UpdateEffect
  <1>5. ASSUME ForgetEffect(x, w) PROVE BaseStep(c)
    <2>1. PICK gone : gone = Selected(x.req, w.base.rows)
      OBVIOUS
    <2>2. /\ x.req.op = "forget" /\ x.phase = "looked" /\ x.snap = IdsOf(gone)
          /\ w.next.rows = w.base.rows \ gone
          /\ w.told = Answer("deleted", Cardinality(gone), 0, {})
      BY <1>5, <2>1 DEF ForgetEffect
    <2>3. gone = {r \in Selected(x.req, w.base.rows) : r.id \in x.snap}
      BY <2>1, <2>2 DEF IdsOf
    <2> QED
      BY <1>1, <1>2, <2>2, <2>3, AsRemove
  <1> QED
    BY <1>2, <1>3, <1>4, <1>5 DEF Effect

LEMMA AnsweredAs ==
    ASSUME OnFile, NEW c \in Callers, Answered(c)
    PROVE  BaseStep(c) \/ Stutters
  <1>1. At(c, "answer") /\ file'.rows = file.rows
    BY WriteBackRows DEF Answered
  <1>2. Rows' = Rows
    BY <1>1, FileRows
  <1>3. CASE Finds(c)
    BY <1>2, <1>3, AsEnd
  <1>4. CASE /\ call[c].req.op = "ingest" /\ call[c].todo = <<>>
             /\ Ends(c, Answer("stored", 0, call[c].skipped, {}))
    <2>1. Fits(c, call[c], work[c]) /\ CallOK(call[c])
      BY DEF OnFile, FileInv, WorkOK, CallsOK
    <2>2. call[c].phase = "looked"
      BY <1>1, <2>1 DEF Fits, At
    <2>3. PICK K : K = Range(call[c].todo) \ KeysOf(Rows)
      OBVIOUS
    <2>4. K = {} /\ Cardinality(K) = 0 /\ MintedOf(c, K) = {}
      BY <1>4, <2>3, EmptyTodo, NoTxnFields DEF MintedOf
    <2>5. call[c].skipped + Len(call[c].todo) - Cardinality(K) = call[c].skipped
      BY <1>4, <2>1, <2>4, EmptyTodo DEF CallOK
    <2>6. Ends(c, Answer("stored", Cardinality(K),
                         call[c].skipped + Len(call[c].todo) - Cardinality(K), {}))
      BY <1>4, <2>4, <2>5
    <2> QED
      BY <1>2, <1>4, <2>2, <2>3, <2>4, <2>6, AsStore
  <1>5. CASE call' = call
    BY <1>2, <1>5 DEF Stutters
  <1> QED
    BY <1>3, <1>4, <1>5 DEF Answered

LEMMA update_learningAs ==
    ASSUME OnFile, NEW c \in Callers, update_learning(c)
    PROVE  BaseStep(c) \/ Stutters
  <1>1. PICK f, req : f = Opened(file, Model[c]) /\ req = call[c].req
    OBVIOUS
  <1>2. /\ Writing(c, "update") /\ file' = file
        /\ \/ call' = call
           \/ \E r \in {r \in f.rows : r.id = req.id} :
                 Clashes(req, r, f.rows) /\ Ends(c, Answer("duplicate", 0, 0, {}))
    BY <1>1 DEF update_learning
  <1>3. req.op = "update" /\ call[c].phase = "pending"
    BY <1>1, <1>2, WritingCall
  <1>4. f.rows = Rows /\ Rows' = Rows
    BY <1>1, <1>2, OpenedCopy, FileRows
  <1>5. CASE call' = call
    BY <1>4, <1>5 DEF Stutters
  <1>6. ASSUME NEW r \in {r \in f.rows : r.id = req.id}, Clashes(req, r, f.rows),
               Ends(c, Answer("duplicate", 0, 0, {}))
        PROVE  BaseStep(c)
    BY <1>1, <1>3, <1>4, <1>6, AsUpdate
  <1> QED
    BY <1>2, <1>5, <1>6

LEMMA FileStepAs ==
    ASSUME OnFile, store # "file", NEW c \in Callers, SyncStep(c)
    PROVE  BaseStep(c) \/ Stutters
  <1>1. Rows = file.rows /\ Rows' = file'.rows
    BY FileRows
  <1>2. CASE existing_keys(c)
    BY <1>1, <1>2, AsLook DEF existing_keys
  <1>3. CASE query(c)
    <2>1. IsFiniteSet(file.rows)
      BY DEF OnFile, FileInv, FileOK, Proper
    <2>2. PICK knn \in Nearest(file.rows, Widened(file.rows)) : Sees(c, {r \in knn : ~Dark(r)})
      BY <1>3 DEF query
    <2>3. PICK S, A : S = {r \in file.rows : ~Dark(r)} /\ A = {r \in knn : ~Dark(r)}
      OBVIOUS
    <2>4. A \in SUBSET S /\ Cardinality(A) >= AtMost(candidate_k, S) /\ NearestFirst(S, A)
      BY <2>1, <2>3, WidenedWindow
    <2>5. /\ call[c].phase = "pending" /\ call[c].req.op = "query" /\ Rows' = Rows
          /\ S = {r \in Rows : ~Dark(r)} /\ Sees(c, A)
      BY <1>1, <1>3, <2>2, <2>3 DEF query
    <2> QED
      BY <2>4, <2>5, AsFind
  <1>4. CASE list_learnings(c)
    BY <1>1, <1>4, AsList DEF list_learnings
  <1>5. CASE LoadIngest(c)
    BY <1>1, <1>5 DEF LoadIngest, Stutters
  <1>6. CASE forget(c)
    <2>1. PICK f : f = Opened(file, Model[c])
      OBVIOUS
    <2>2. f.rows = Rows
      BY <1>1, <2>1, OpenedCopy
    <2>3. /\ Writing(c, "forget") /\ file' = file
          /\ call' = [call EXCEPT ![c].phase = "looked",
                                  ![c].snap = IdsOf(Selected(call[c].req, Rows))]
      BY <1>6, <2>1, <2>2 DEF forget
    <2>4. call[c].req.op = "forget" /\ Busy(c)
      BY <2>3, WritingCall
    <2> QED
      BY <1>1, <2>3, <2>4, AsSelect
  <1>7. CASE Saved(c) \/ SavedUnheard(c)
    <2>1. IsSaving(work[c])
      BY <1>7 DEF Saved, SavedUnheard, At, IsSaving
    <2> QED
      BY <1>7, <2>1, SavedAs DEF Saved, SavedUnheard, Unchanged
  <1>8. CASE Truncated(c) \/ Filled(c) \/ Checked(c)
    <2>1. work[c].pc \in {"truncate", "fill"} => store = "file"
      BY DEF OnFile, FileInv, WorkOK
    <2> QED
      BY <1>8, <2>1 DEF Truncated, Filled, Checked, At
  <1>9. CASE Raced(c) \/ Fails(c)
    <2>1. Fits(c, call[c], work[c])
      BY DEF OnFile, FileInv, WorkOK
    <2>2. Busy(c)
      BY <1>9, <2>1 DEF Raced, Fails, At, Fits, Busy
    <2>3. Rows' = Rows /\ (call' = call \/ Ends(c, Failed))
      BY <1>1, <1>9 DEF Raced, Fails
    <2> QED
      BY <2>2, <2>3, AsEnd DEF Stutters
  <1>10. CASE Asks(c)
    BY <1>1, <1>10, AsEnd DEF Asks
  <1> QED
    BY <1>2, <1>3, <1>4, <1>5, <1>6, <1>7, <1>8, <1>9, <1>10, AnsweredAs, update_learningAs
       DEF SyncStep, Works

LEMMA InsertsItemAs ==
    ASSUME OnTable, NEW c \in Callers, InsertsItem(c)
    PROVE  BaseStep(c) \/ Stutters
  <1>1. PICK n, i : n = Cardinality(txn[c].added) /\ i = n + 1
    OBVIOUS
  <1>2. /\ InTxn(c, "insert") /\ n < Len(call[c].todo) /\ table' = table
        /\ \/ /\ call[c].todo[i] \in KeysOf(table)
              /\ call' = [call EXCEPT ![c].todo = RemoveAt(@, i), ![c].skipped = @ + 1]
           \/ call' = call
    BY <1>1 DEF InsertsItem, NextItem
  <1>3. Rows = table /\ Rows' = Rows
    BY <1>2, TableRows
  <1>4. call[c].phase = "looked" /\ call[c].req.op = "ingest" /\ n \in Nat
    BY <1>1, <1>2, Inserting
  <1>5. call[c].todo \in Seq(Range(call[c].todo))
    BY OwnTxn DEF CallOK
  <1>6. i \in DOMAIN call[c].todo
    BY <1>1, <1>2, <1>4, <1>5
  <1> QED
    BY <1>2, <1>3, <1>4, <1>6, AsSkip DEF Stutters

LEMMA CommitsAs ==
    ASSUME OnTable, NEW c \in Callers, Commits(c)
    PROVE  BaseStep(c)
  <1>1. PICK K, n : K = Range(call[c].todo) /\ n = Cardinality(txn[c].added)
    OBVIOUS
  <1>2. /\ call[c].phase = "looked" /\ call[c].req.op = "ingest"
        /\ call[c].todo = <<>> \/ InTxn(c, "insert")
        /\ Cardinality(txn[c].added) = Len(call[c].todo)
        /\ table' = table \cup txn[c].added
        /\ Ends(c, Answer("stored", n, call[c].skipped, {})) \/ Ends(c, Failed)
    BY <1>1 DEF Commits, Asked
  <1>3. /\ txn[c].added = MintedOf(c, K) /\ n = Cardinality(K) /\ n \in Nat
        /\ K \cap KeysOf(table) = {}
    BY <1>1, <1>2, Batch
  <1>4. K = Range(call[c].todo) \ KeysOf(Rows) /\ Rows' = Rows \cup MintedOf(c, K)
    BY <1>1, <1>2, <1>3, TableRows
  <1>5. call[c].skipped \in Int
    BY OwnTxn DEF CallOK
  <1>6. call[c].skipped + Len(call[c].todo) - Cardinality(K) = call[c].skipped
    BY <1>1, <1>2, <1>3, <1>5
  <1> QED
    BY <1>2, <1>3, <1>4, <1>6, AsStore

LEMMA UpdatesRowAs ==
    ASSUME OnTable, NEW c \in Callers, UpdatesRow(c)
    PROVE  BaseStep(c)
  <1>1. PICK req : req = call[c].req
    OBVIOUS
  <1>2. call[c].phase = "pending" /\ call[c].req.op = "update"
    BY LockedRow DEF UpdatesRow
  <1>3. PICK r \in {r \in Rows : r.id = req.id} :
          \/ /\ Clashes(req, r, Rows)
             /\ Ends(c, Answer("duplicate", 0, 0, {})) /\ Rows' = Rows
          \/ /\ ~Clashes(req, r, Rows)
             /\ Rows' = (Rows \ {r}) \cup {Changed(req, r)}
             /\ Ends(c, Answer("updated", 0, 0, {Changed(req, r)})) \/ Ends(c, Failed)
    BY <1>1, TableRows DEF UpdatesRow
  <1> QED
    BY <1>1, <1>2, <1>3, AsUpdate

LEMMA FindsNearestAs ==
    ASSUME OnTable, NEW c \in Callers, FindsNearest(c)
    PROVE  BaseStep(c)
  <1>1. PICK S : S = {r \in table : ~Dark(r)}
    OBVIOUS
  <1>2. PICK A \in Nearest(S, candidate_k) : Sees(c, A)
    BY <1>1 DEF FindsNearest
  <1>3. A \in SUBSET S /\ Cardinality(A) = AtMost(candidate_k, S) /\ NearestFirst(S, A)
    BY <1>2 DEF Nearest
  <1>4. Cardinality(A) >= AtMost(candidate_k, S)
    <2>1. IsFiniteSet(S)
      BY <1>1, FS_Subset DEF OnTable, PgInv, TableOK, Proper
    <2>2. IsFiniteSet(A)
      BY <1>3, <2>1, FS_Subset
    <2>3. Cardinality(A) \in Nat
      BY <2>2, FS_CardinalityType
    <2> QED
      BY <1>3, <2>3
  <1>5. /\ call[c].phase = "pending" /\ call[c].req.op = "query"
        /\ S = {r \in Rows : ~Dark(r)} /\ Rows' = Rows
    BY <1>1, TableRows DEF FindsNearest, Asked
  <1> QED
    BY <1>2, <1>3, <1>4, <1>5, AsFind

LEMMA TableStepAs ==
    ASSUME OnTable, NEW c \in Callers, PgStep(c)
    PROVE  BaseStep(c) \/ Stutters
  <1>1. Rows = table /\ Rows' = table'
    BY TableRows
  <1>2. CASE ExistingKeys(c)
    BY <1>1, <1>2, AsLook DEF ExistingKeys, Asked
  <1>3. CASE Embeds(c)
    BY <1>1, <1>3 DEF Embeds, Stutters
  <1>4. CASE LocksRow(c)
    <2>1. CASE call' = call
      BY <1>1, <1>4, <2>1 DEF LocksRow, Stutters
    <2>2. CASE call' # call
      <3>1. /\ call[c].req.id \notin IdsOf(table) /\ Ends(c, Answer("absent", 0, 0, {}))
            /\ call[c].phase = "pending" /\ call[c].req.op = "update" /\ table' = table
        BY <1>4, <2>2 DEF LocksRow, Asked
      <3>2. {r \in Rows : r.id = call[c].req.id} = {}
        BY <1>1, <3>1 DEF IdsOf
      <3> QED
        BY <1>1, <3>1, <3>2, AsUpdate
    <2> QED
      BY <2>1, <2>2
  <1>5. CASE ChoosesRows(c)
    BY <1>1, <1>5, AsSelect DEF ChoosesRows, Asked, Busy
  <1>6. CASE DeletesRows(c)
    <2>1. PICK gone : gone = {r \in Selected(call[c].req, Rows) : r.id \in call[c].snap}
      OBVIOUS
    <2>2. /\ call[c].phase = "looked" /\ call[c].req.op = "forget" /\ Rows' = Rows \ gone
          /\ Ends(c, Answer("deleted", Cardinality(gone), 0, {})) \/ Ends(c, Failed)
      BY <1>1, <1>6, <2>1 DEF DeletesRows, Asked
    <2> QED
      BY <2>1, <2>2, AsRemove
  <1>7. CASE FindsScoped(c)
    <2>1. call[c].phase = "looked" /\ call[c].req.op = "query"
      BY <1>7, OwnTxn DEF FindsScoped, InTxn, TxnFits
    <2> QED
      BY <1>1, <1>7, <2>1, AsFindScoped DEF FindsScoped
  <1>8. CASE Lists(c)
    BY <1>1, <1>8, AsList DEF Lists, Asked
  <1>9. CASE Found(c)
    BY <1>1, <1>9, AsEnd DEF Found
  <1>10. CASE PgAsks(c)
    BY <1>1, <1>10, AsEnd DEF PgAsks
  <1>11. CASE Raises(c)
    BY <1>1, <1>11, AsEnd DEF Raises
  <1>12. CASE Deadlocked(c)
    <2>1. Busy(c)
      BY <1>12, Inserting DEF Deadlocked, WaitsFor
    <2> QED
      BY <1>1, <1>12, <2>1, AsEnd DEF Deadlocked
  <1> QED
    BY <1>2, <1>3, <1>4, <1>5, <1>6, <1>7, <1>8, <1>9, <1>10, <1>11, <1>12, InsertsItemAs,
       CommitsAs, UpdatesRowAs, FindsNearestAs
       DEF PgStep, Proceeds

LEMMA BaseStepIsNext ==
    ASSUME NEW c \in Callers, BaseStep(c), ever' = ever \cup KeysOf(Rows')
    PROVE  Base!BaseNext
  <1>1. ever' = ever \cup Base!KeysOf(Rows')
    BY SameData
  <1> QED
    BY <1>1 DEF BaseStep, Base!BaseNext

LEMMA EveryStep ==
    ASSUME KnowledgeInv, [Next]_vars
    PROVE  [store # "file" => Base!BaseNext]_<<Rows, call, ever>>
  <1> SUFFICES ASSUME store # "file"
               PROVE  Base!BaseNext \/ UNCHANGED <<Rows, call, ever>>
    OBVIOUS
  <1>1. ASSUME NEW c \in Callers, Remembered, BaseStep(c) \/ Stutters
        PROVE  Base!BaseNext \/ UNCHANGED <<Rows, call, ever>>
    <2>1. CASE BaseStep(c)
      BY <1>1, <2>1, BaseStepIsNext DEF Remembered
    <2>2. CASE Stutters
      <3>1. KeysOf(Rows) \subseteq ever
        BY DEF KnowledgeInv, Drained
      <3> QED
        BY <1>1, <2>2, <3>1 DEF Stutters, Remembered
    <2> QED
      BY <1>1, <2>1, <2>2
  <1>2. ASSUME NEW c \in Callers, FileStore(c)
        PROVE  Base!BaseNext \/ UNCHANGED <<Rows, call, ever>>
    <2>1. OnFile /\ SyncStep(c)
      BY <1>2 DEF OnFile, FileStore, SyncStep, KnowledgeInv
    <2> QED
      BY <1>1, <2>1, FileStepAs, FileRows
  <1>3. ASSUME NEW c \in Callers, PostgresStore(c)
        PROVE  Base!BaseNext \/ UNCHANGED <<Rows, call, ever>>
    <2>1. OnTable /\ PgStep(c)
      BY <1>3 DEF OnTable, PostgresStore, PgStep, KnowledgeInv
    <2> QED
      BY <1>1, <2>1, TableStepAs, TableRows
  <1>4. CASE UNCHANGED vars
    BY <1>4 DEF vars, Rows
  <1> QED
    BY <1>2, <1>3, <1>4 DEF Next

LEMMA FirstState == Init => Base!BaseInit
  <1>1. Base!Idle = Idle /\ Base!KeysOf(Rows) = KeysOf(Rows)
    BY SameData
  <1>2. Init => call = [c \in Callers |-> Idle] /\ ever = KeysOf(Rows)
    BY DEF Init, StartsFrom, StartsFromTable, Rows
  <1> QED
    BY <1>1, <1>2 DEF Base!BaseInit

\* Postgres and the file on S3 keep the promise of the Store protocol: a call takes
\* effect in one step, once, and is told what that step did; a retry, a race that is
\* lost, a migration and a lost answer show as nothing else (sqlite_store._mutate,
\* _read; ingest.ingest, update, forget; retrieve.query).
THEOREM StoresImplementBase == Spec => ImplementsBase
  <1>1. Spec => Base!BaseInit
    BY FirstState, PTL DEF Spec
  <1>2. Spec => [][store # "file" => Base!BaseNext]_<<Rows, call, ever>>
    BY EveryStep, KnowledgeInvariant, PTL DEF Spec
  <1> QED
    BY <1>1, <1>2 DEF ImplementsBase

=============================================================================
