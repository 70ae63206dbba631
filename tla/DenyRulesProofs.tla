--------------------------- MODULE DenyRulesProofs ---------------------------
(***************************************************************************)
(* That the directories transcripts are written to are denied, and that no *)
(* store is silently left readable, for every set of directories and of    *)
(* configurations.  The rules are built once, from the configuration: what *)
(* is to show is that the rule builder covers each kind of name, and that  *)
(* the two processes which resolve a directory agree with it on the name,  *)
(* where they expanded the setting to the same name in the first place.    *)
(***************************************************************************)
EXTENDS DenyRules, TLAPS

-----------------------------------------------------------------------------
(* Names *)

Names == [dir : Dirs \cup {"/"}, quirk : Quirks, via : Spellings]

LEMMA RealOf ==
    ASSUME NEW v \in Names
    PROVE  Real(v) \in Names /\ Real(v) = [dir |-> v.dir, quirk |-> v.quirk, via |-> "itself"]
  <1>1. v = [dir |-> v.dir, quirk |-> v.quirk, via |-> v.via]
    BY DEF Names
  <1>2. [v EXCEPT !.via = "itself"] = [dir |-> v.dir, quirk |-> v.quirk, via |-> "itself"]
    BY <1>1
  <1>3. v.dir \in Dirs \cup {"/"} /\ v.quirk \in Quirks
    BY DEF Names
  <1> QED
    BY <1>2, <1>3 DEF Real, Names, Spellings

LEMMA RealNames ==
    ASSUME NEW v \in Values
    PROVE  /\ Absolute(Real(v)) /\ Real(Real(v)) = Real(v)
           /\ Real(v) # Unset /\ v # Unset
           /\ Garbled(Real(v)) <=> Garbled(v)
  <1>1. v \in Names
    BY DEF Values, Names, Root, Quirks, Spellings
  <1>2. v.dir # ""
    BY <1>1, DenyAssumption DEF Names
  <1>3. PICK w : w = Real(v)
    OBVIOUS
  <1>4. w \in Names /\ w = [dir |-> v.dir, quirk |-> v.quirk, via |-> "itself"]
    BY <1>1, <1>3, RealOf
  <1>5. w.dir = v.dir /\ w.quirk = v.quirk /\ w.via = "itself"
    BY <1>4
  <1>6. Real(w) = w
    BY <1>4, <1>5, RealOf
  <1>7. w # Unset /\ v # Unset
    <2>1. Unset.dir = ""
      BY DEF Unset
    <2> QED
      BY <1>2, <1>5, <2>1
  <1>8. Absolute(w) /\ (Garbled(w) <=> Garbled(v))
    BY <1>5 DEF Absolute, Garbled, IsRoot
  <1> QED
    BY <1>3, <1>6, <1>7, <1>8

-----------------------------------------------------------------------------
(* The rule builder *)

\* The name itself was said not to be covered, or each spelling of it, the
\* declared and the real one, has a rule or was said to have none.
Covered(v, settings) ==
    v \in settings.said \/ {v, Real(v)} \subseteq settings.deny \cup settings.said

LEMMA SettingsOf ==
    ASSUME NEW S
    PROVE  LET built == PermissionSettings(Joined(S))
           IN  /\ \A c \in S : \A v \in c.deny :
                    IF Absolute(v) THEN v \in built.deny ELSE v \in built.said
               /\ \A c \in S : c.said \subseteq built.said
  BY DEF PermissionSettings, Joined

\* A name for which the builder adds Both, or Refused, is covered by the settings.
LEMMA BothCovers ==
    ASSUME NEW S, NEW v \in Values, Both(v) \in S
    PROVE  Covered(v, PermissionSettings(Joined(S)))
  <1> DEFINE built == PermissionSettings(Joined(S))
  <1>1. Both(v).deny = {v} \cup CanonicalTwin(v).deny /\ Both(v).said = CanonicalTwin(v).said
    BY DEF Both
  <1>2. IF Absolute(v) THEN v \in built.deny ELSE v \in built.said
    BY <1>1, SettingsOf
  <1>3. ASSUME Absolute(v), Real(v) # v
        PROVE  v \in built.said \/ Real(v) \in built.deny \cup built.said
    <2>1. Absolute(Real(v))
      BY RealNames
    <2>2. CASE Unresolvable(v)
      <3>1. v \in Both(v).said
        BY <1>1, <1>3, <2>2 DEF CanonicalTwin, Nothing
      <3> QED
        BY <3>1, SettingsOf
    <2>3. CASE ~Unresolvable(v) /\ Unrepresentable(Real(v))
      <3>1. Real(v) \in Both(v).said
        BY <1>1, <1>3, <2>3 DEF CanonicalTwin, Nothing
      <3> QED
        BY <3>1, SettingsOf
    <2>4. CASE ~Unresolvable(v) /\ ~Unrepresentable(Real(v))
      <3>1. Real(v) \in Both(v).deny
        BY <1>1, <1>3, <2>4 DEF CanonicalTwin, Nothing
      <3> QED
        BY <2>1, <3>1, SettingsOf
    <2> QED
      BY <2>2, <2>3, <2>4
  <1> HIDE DEF built
  <1>4. v \in built.said \/ {v, Real(v)} \subseteq built.deny \cup built.said
    BY <1>2, <1>3
  <1> QED
    BY <1>4 DEF Covered, built

LEMMA RefusedCovers ==
    ASSUME NEW S, NEW v, Refused(v) \in S
    PROVE  Covered(v, PermissionSettings(Joined(S)))
  <1>1. v \in Refused(v).said
    BY DEF Refused
  <1> QED
    BY <1>1, SettingsOf DEF Covered

\* A directory that is handed over is denied under the name it was handed with.
LEMMA HandedIsDenied ==
    ASSUME NEW S, NEW v \in Values, ~Garbled(v), Handed(Real(v)) \in S
    PROVE  Real(v) \in PermissionSettings(Joined(S)).deny
  <1>1. Handed(Real(v)).deny = {Real(v)} /\ Absolute(Real(v))
    BY RealNames DEF Handed
  <1> QED
    BY <1>1, SettingsOf

\* A name under HOME is a name.
LEMMA StoresUnderHome ==
    ASSUME NEW v \in Values
    PROVE  UnderHome(v) \in Values
  <1>1. PICK d : d = CHOOSE e \in Dirs : TRUE
    OBVIOUS
  <1>2. d \in Dirs
    BY <1>1, DenyAssumption
  <1>3. CASE IsRoot(v)
    <2>1. v \in {[Root EXCEPT !.via = w] : w \in {"itself", "dots", "link"}}
      BY <1>3, DenyAssumption DEF IsRoot, Values
    <2>2. v \in [dir : {"/"}, quirk : Quirks, via : Spellings]
      BY <2>1 DEF Root, Quirks, Spellings
    <2>3. [v EXCEPT !.dir = d] \in [dir : Dirs, quirk : Quirks, via : Spellings]
      BY <1>2, <2>2
    <2> QED
      BY <1>1, <1>3, <2>3 DEF UnderHome, Values
  <1>4. CASE ~IsRoot(v)
    BY <1>4 DEF UnderHome
  <1> QED
    BY <1>3, <1>4

LEMMA StoresAreCovered ==
    ASSUME NEW s \in Sites,
           NEW v \in {UnderHome(s.home), s.config, s.ambient, s.declared}, v # Unset
    PROVE  Covered(v, PermissionSettings(Joined(Candidates(s))))
  <1>1. {s.home, s.config, s.ambient, s.declared} \subseteq Values \cup {Unset}
    BY DenyAssumption
  <1>2. CASE v = UnderHome(s.home)
    <2>1. s.home # Unset
      <3>1. Unset.dir # "/"
        BY DEF Unset
      <3>2. UnderHome(Unset) = Unset
        BY <3>1 DEF UnderHome, IsRoot
      <3> QED
        BY <1>2, <3>2
    <2>2. HomeStore(s.home) = Refused(v) \/ HomeStore(s.home) = Both(v)
      BY <1>2, <2>1 DEF HomeStore
    <2>3. v \in Values
      BY <1>1, <1>2, <2>1, StoresUnderHome
    <2>4. HomeStore(s.home) \in Candidates(s)
      BY DEF Candidates
    <2> QED
      BY <2>2, <2>3, <2>4, BothCovers, RefusedCovers
  <1>3. ASSUME NEW u \in {s.config, s.ambient}, v = u
        PROVE  Covered(v, PermissionSettings(Joined(Candidates(s))))
    <2>1. ConfigDir(v) = Refused(v) \/ ConfigDir(v) = Both(v)
      BY DEF ConfigDir
    <2>2. v \in Values
      BY <1>1, <1>3
    <2>3. ConfigDir(v) \in Candidates(s)
      BY <1>3 DEF Candidates
    <2> QED
      BY <2>1, <2>2, <2>3, BothCovers, RefusedCovers
  <1>4. CASE v = s.declared
    <2>1. Declared(v) = Refused(v) \/ Declared(v) = Both(v)
      BY DEF Declared
    <2>2. v \in Values
      BY <1>1, <1>4
    <2>3. Declared(v) \in Candidates(s)
      BY <1>4 DEF Candidates
    <2> QED
      BY <2>1, <2>2, <2>3, BothCovers, RefusedCovers
  <1> QED
    BY <1>2, <1>3, <1>4

-----------------------------------------------------------------------------
(* The invariant *)

BuiltFor(s) == PermissionSettings(Joined(Candidates(s)))

DenyInv ==
    /\ site \in Sites
    /\ pc \in {"invoke", "open", "running"}
    /\ pc # "invoke" => rules = BuiltFor(site).deny /\ announced = BuiltFor(site).said
    /\ opened # Unset => pc = "running" /\ opened = transcript_dir(site.capture)
    /\ kept # Unset =>
         pc = "running" /\ kept = local_blob_root(site.blobs["sidecar"], "sidecar")

LEMMA DenyInit == Init => DenyInv
  BY DEF Init, DenyInv

LEMMA DenyNext == DenyInv /\ [Next]_vars => DenyInv'
  <1> SUFFICES ASSUME DenyInv, [Next]_vars PROVE DenyInv'
    OBVIOUS
  <1> USE DEF DenyInv
  <1>1. CASE Settings
    BY <1>1 DEF Settings, BuiltFor
  <1>2. CASE Open
    BY <1>2 DEF Open
  <1>3. CASE Keep
    BY <1>3 DEF Keep
  <1>4. CASE UNCHANGED vars
    BY <1>4 DEF vars
  <1> QED
    BY <1>1, <1>2, <1>3, <1>4 DEF Next

THEOREM DenyInvariant == Spec => []DenyInv
  BY DenyInit, DenyNext, PTL DEF Spec

\* While the agent runs, the directory the runner captures to and the directory
\* the sidecar keeps transcripts in are denied under their real names, the
\* second where both processes expand the root alike (open_transcript,
\* make_blob_store against _permission_settings); the violated StoreIsDenied
\* is the same without that condition.
THEOREM TranscriptsAreDenied == Spec => []CorpusIsDenied
  <1>1. DenyInv => CorpusIsDenied
    <2> SUFFICES ASSUME DenyInv PROVE CorpusIsDenied
      OBVIOUS
    <2>1. /\ site.capture \in Values \cup {Unset}
          /\ site.blobs["sidecar"] \in Values \cup {Unset}
      BY DenyAssumption DEF DenyInv, Processes
    <2>2. ASSUME opened # Unset PROVE opened \in rules
      <3>1. pc = "running" /\ rules = BuiltFor(site).deny /\ opened = transcript_dir(site.capture)
        BY <2>2 DEF DenyInv
      <3>2. site.capture \in Values /\ ~Garbled(site.capture) /\ opened = Real(site.capture)
        BY <2>1, <2>2, <3>1 DEF transcript_dir
      <3>3. Handed(Real(site.capture)) \in Candidates(site)
        BY <3>1, <3>2 DEF Candidates
      <3> QED
        BY <3>1, <3>2, <3>3, HandedIsDenied DEF BuiltFor
    <2>3. ASSUME kept # Unset, site.blobs["sidecar"] = site.blobs["runner"]
          PROVE  kept \in rules
      <3> DEFINE root == site.blobs["sidecar"]
      <3>1. /\ pc = "running" /\ rules = BuiltFor(site).deny
            /\ kept = local_blob_root(root, "sidecar")
        BY <2>3 DEF DenyInv
      <3>2. root \in Values /\ ~Garbled(root) /\ kept = Real(root)
        BY <2>1, <2>3, <3>1 DEF local_blob_root, Resolved
      <3>3. local_blob_root(root, "runner") = Real(root)
        BY <2>3, <3>1, <3>2 DEF local_blob_root, Resolved
      <3>4. Handed(Real(root)) \in Candidates(site)
        BY <2>3, <3>3 DEF Candidates
      <3> QED
        BY <3>1, <3>2, <3>4, HandedIsDenied DEF BuiltFor
    <2> QED
      BY <2>2, <2>3 DEF CorpusIsDenied
  <1> QED
    BY <1>1, DenyInvariant, PTL

\* Each spelling of a store that the environment or the operator names has a
\* rule, or stderr named it or the store as not covered (_permission_settings,
\* _environment_root, _canonical_twin).
THEOREM StoresAreAnnounced == Spec => []CoveredOrAnnounced
  <1>1. DenyInv => CoveredOrAnnounced
    <2> SUFFICES ASSUME DenyInv, pc # "invoke", NEW v \in Stores
                 PROVE  v \in announced \/ {v, Real(v)} \subseteq rules \cup announced
      BY DEF CoveredOrAnnounced
    <2>1. site \in Sites /\ rules = BuiltFor(site).deny /\ announced = BuiltFor(site).said
      BY DEF DenyInv
    <2>2. /\ v \in {UnderHome(site.home), site.config, site.ambient, site.declared}
          /\ v # Unset
      BY DEF Stores
    <2>3. Covered(v, BuiltFor(site))
      BY <2>1, <2>2, StoresAreCovered DEF BuiltFor
    <2> QED
      BY <2>1, <2>3 DEF Covered
  <1> QED
    BY <1>1, DenyInvariant, PTL

=============================================================================
