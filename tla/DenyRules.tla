------------------------------ MODULE DenyRules ------------------------------
(***************************************************************************)
(* What the agent may not read.  The driver collects the directories that  *)
(* hold credentials and past transcripts, harness.py renders one rule per   *)
(* spelling, and a rule matches the path the agent spells.  Transcripts are *)
(* written by two processes: the runner captures them, the sidecar keeps    *)
(* the finished ones when its blob store is a directory.                    *)
(*                                                                         *)
(* A name is the spelling of a directory: which directory, what is unusual  *)
(* about its real name, and how it is spelled.  The directories transcripts *)
(* go to are given as Path(...).expanduser() returns them in the process    *)
(* that asks: a setting that begins with ~ is one name in the runner and    *)
(* another in a sidecar whose HOME differs, and Unset where there is no     *)
(* home to put in its place.  Nobody expands the other settings, where a ~  *)
(* is the first character of a relative name.                               *)
(***************************************************************************)
EXTENDS FiniteSets

CONSTANTS
    Dirs,       \* directories of the host
    Sites       \* configurations to look at

Quirks == {"none", "backslash", "padded", "newline"}

Processes == {"runner", "sidecar"}

\* "dots" is an absolute spelling that is not normal, such as /tmp/..; the
\* link itself has an ordinary name, an "odd link" has one with a backslash,
\* and an "unresolvable" one cannot be followed: resolving it raises.
Spellings == {"itself", "dots", "link", "odd link", "unresolvable", "relative"}

Unset == [dir |-> "", quirk |-> "none", via |-> "itself"]
Root == [dir |-> "/", quirk |-> "none", via |-> "itself"]

Values ==
    [dir : Dirs, quirk : Quirks, via : Spellings] \cup
    {[Root EXCEPT !.via = v] : v \in {"itself", "dots", "link"}}

\* A directory has a name other than the root's; settings are names, the root
\* of the blobs one in each process.
ASSUME DenyAssumption ==
    /\ Dirs # {} /\ {"", "/"} \cap Dirs = {}
    /\ \A s \in Sites :
         /\ {s.home, s.config, s.ambient, s.declared, s.capture} \subseteq Values \cup {Unset}
         /\ s.blobs \in [Processes -> Values \cup {Unset}]

Real(v) == [v EXCEPT !.via = "itself"]
IsRoot(v) == v.dir = "/"
Absolute(v) == v.via # "relative"
Unresolvable(v) == v.via = "unresolvable"

\* What is unusual about the characters of the spelling itself.
Spelt(v) ==
    CASE v.via = "link" -> "none"
      [] v.via = "odd link" -> "backslash"
      [] OTHER -> v.quirk

VARIABLES
    site,       \* the settings of the two processes
    rules,      \* the names a deny rule matches
    announced,  \* the names stderr said are not covered
    opened,     \* where the runner captures: a name, Unset when capture is off
    kept,       \* where the sidecar's directory of blobs is
    pc

vars == <<site, rules, announced, opened, kept, pc>>

-----------------------------------------------------------------------------
\* A relative spelling names a different directory in the other process.
Elsewhere(v) == [v EXCEPT !.dir = CHOOSE d \in Dirs : d # v.dir]
Resolved(v, process) ==
    IF Absolute(v) \/ process = "runner" THEN Real(v) ELSE Real(Elsewhere(v))

\* What the hand-off of the transcript directories would garble.
Garbled(v) == IsRoot(v) \/ v.quirk # "none"

\* Mutant: the refusal of unusual names was forgotten for the capture.
OnlyTheRoot(v) ==
    IF v = Unset \/ Unresolvable(v) \/ IsRoot(v) THEN Unset ELSE Real(v)   \* mutant

transcript_dir(v) ==
    IF v = Unset \/ Unresolvable(v) \/ Garbled(v) THEN Unset ELSE Real(v)

\* The root of the file backend, as the process that resolves it sees it.
local_blob_root(v, process) ==
    IF v = Unset \/ Unresolvable(v) \/ ~Absolute(v) \/ Garbled(v)
    THEN Unset ELSE Resolved(v, process)

-----------------------------------------------------------------------------
\* Why no rule can express a name.
Unrepresentable(v) == Spelt(v) = "backslash" \/ (IsRoot(v) /\ v.via # "link")

Nothing == [deny |-> {}, said |-> {}]

\* Mutant: a twin that cannot be expressed is left out without a word.
SilentTwin(v) ==
    IF ~Absolute(v) \/ Unresolvable(v) \/ Real(v) = v \/ Unrepresentable(Real(v))
    THEN Nothing ELSE [deny |-> {Real(v)}, said |-> {}]                 \* mutant

\* The canonical spelling beside the declared one, and what is said when it
\* cannot be added: the declared name when the canonical one is not known.
CanonicalTwin(v) ==
    IF ~Absolute(v) \/ Real(v) = v THEN Nothing
    ELSE IF Unresolvable(v) THEN [Nothing EXCEPT !.said = {v}]
    ELSE IF Unrepresentable(Real(v)) THEN [Nothing EXCEPT !.said = {Real(v)}]
    ELSE [Nothing EXCEPT !.deny = {Real(v)}]

Both(v) == [deny |-> {v} \cup CanonicalTwin(v).deny, said |-> CanonicalTwin(v).said]
Refused(v) == [deny |-> {}, said |-> {v}]

Joined(S) == [deny |-> UNION {c.deny : c \in S}, said |-> UNION {c.said : c \in S}]

\* A store under HOME: HOME's own spelling carries over to it, except that
\* the root is a perfectly good parent.
UnderHome(v) == IF IsRoot(v) THEN [v EXCEPT !.dir = CHOOSE d \in Dirs : TRUE] ELSE v

HomeStore(v) ==
    IF v = Unset THEN Nothing
    ELSE IF Spelt(v) = "backslash" THEN Refused(UnderHome(v))
    ELSE Both(UnderHome(v))

ConfigDir(v) ==
    IF v = Unset THEN Nothing ELSE IF Unrepresentable(v) THEN Refused(v) ELSE Both(v)

\* The list of declared stores is stripped: a padded name is read as another,
\* whose rule covers nothing of it, and stderr says so.
Declared(v) ==
    IF v = Unset THEN Nothing
    ELSE IF Spelt(v) = "padded" \/ Unrepresentable(v) THEN Refused(v) ELSE Both(v)

\* The hand-off of the transcript directories strips, splits and rewrites
\* without a word: a garbled name gets no rule of its own.
Handed(v) == IF v = Unset \/ Garbled(v) THEN Nothing ELSE [deny |-> {v}, said |-> {}]

Candidates(s) ==
    {HomeStore(s.home), ConfigDir(s.config), ConfigDir(s.ambient), Declared(s.declared),
     Handed(transcript_dir(s.capture)),
     Handed(local_blob_root(s.blobs["runner"], "runner"))}

\* _permission_settings: rules exist for absolute spellings only.
PermissionSettings(candidates) ==
    [deny |-> {v \in candidates.deny : Absolute(v)},
     said |-> candidates.said \cup {v \in candidates.deny : ~Absolute(v)}]

-----------------------------------------------------------------------------
Init ==
    /\ site \in Sites
    /\ rules = {} /\ announced = {}
    /\ opened = Unset /\ kept = Unset
    /\ pc = "invoke"

\* The driver builds the agent's settings from its own environment; the blob
\* root and the capture directory are denied when they are configured, whether
\* or not this run captures.
Settings ==
    LET built == PermissionSettings(Joined(Candidates(site)))
    IN /\ pc = "invoke"
       /\ rules' = built.deny /\ announced' = built.said
       /\ pc' = "open"
       /\ UNCHANGED <<site, opened, kept>>

\* open_transcript.
Open ==
    /\ pc = "open"
    /\ opened' = transcript_dir(site.capture)
    /\ pc' = "running"
    /\ UNCHANGED <<site, rules, announced, kept>>

\* make_blob_store, in the sidecar, when a transcript arrives.
Keep ==
    /\ pc = "running" /\ kept = Unset
    /\ kept' = local_blob_root(site.blobs["sidecar"], "sidecar")
    /\ kept' # Unset
    /\ UNCHANGED <<site, rules, announced, opened, pc>>

Next == Settings \/ Open \/ Keep
Spec == Init /\ [][Next]_vars

-----------------------------------------------------------------------------
\* While the agent runs, every directory this host's transcripts are written
\* to is denied under its real name: by the runner's own capture, and by a
\* sidecar on the host, which resolves the root in another process, provided
\* that it expands the root to the same name.
CorpusIsDenied ==
    /\ (pc = "running" /\ opened # Unset) => opened \in rules
    /\ (kept # Unset /\ site.blobs["sidecar"] = site.blobs["runner"]) => kept \in rules

\* What the one resolver for both callers is there for, whatever the two
\* processes expand the root to (objectstore.py:362-365).  It does not hold where
\* they expand it to different directories.
StoreIsDenied == kept # Unset => kept \in rules

Stores == {UnderHome(site.home), site.config, site.ambient, site.declared} \ {Unset}

\* No store the environment or the operator names is silently left readable:
\* stderr said of the declared name that it is not covered, or each spelling,
\* the declared and the real one, has a rule or was said to have none.
CoveredOrAnnounced ==
    pc # "invoke" =>
        \A v \in Stores : v \in announced \/ {v, Real(v)} \subseteq rules \cup announced

=============================================================================
