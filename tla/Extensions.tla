------------------------------ MODULE Extensions -----------------------------
(***************************************************************************)
(* One user-space extension (extensions/manager.ts): its directory, the    *)
(* commands that make, write, enable and disable it, and the gateways that *)
(* load it when they discover their tools (tools/registry.ts).  A file is  *)
(* written in one step (a temporary file and a rename), a digest is read   *)
(* file by file.  Every command is a process of its own; the tool that     *)
(* writes is the gateway's.                                                *)
(***************************************************************************)
EXTENDS Naturals, FiniteSets

CONSTANTS
    Users,           \* commands and gateways that may run at one time
    Versions,        \* contents that are written
    WritesOverlap,   \* whether a write may overlap an approval or a load
    MayCrash,        \* whether a command may be killed
    MaxUses          \* bound on the commands

ExtensionConstants == {WritesOverlap, MayCrash} \subseteq BOOLEAN /\ MaxUses \in Nat

VARIABLES
    ext,        \* the directory, the two files, and enabled.json
    use,        \* the commands
    loaded,     \* the code that gateways loaded, with the digest they loaded it by
    approvals,  \* every digest that was ever approved
    useCount    \* commands started so far

extVars == <<ext, use, loaded, approvals, useCount>>

Nothing == "none"
Digest(manifest, entry) == [manifest |-> manifest, entry |-> entry]
NoDigest == Digest(Nothing, Nothing)
NoUse == [op |-> "none", at |-> "none", version |-> Nothing, seen |-> NoDigest]

Init ==
    /\ ext = [dir |-> FALSE, manifest |-> Nothing, entry |-> Nothing, enabled |-> NoDigest]
    /\ use = [u \in Users |-> NoUse]
    /\ loaded = {} /\ approvals = {} /\ useCount = 0

Writers == {"create", "write"}
Readers == {"enable", "load"}
Busy(ops) == \E v \in Users : use[v].op \in ops

Begins(u, op, version) ==
    /\ use[u] = NoUse /\ useCount < MaxUses /\ useCount' = useCount + 1
    /\ op \in Writers => WritesOverlap \/ ~Busy(Readers \cup Writers)
    /\ op \in Readers => WritesOverlap \/ ~Busy(Writers)
    /\ use' = [use EXCEPT ![u] = [NoUse EXCEPT !.op = op, !.at = "begin", !.version = version]]
    /\ UNCHANGED <<ext, loaded, approvals>>

Goes(u, at) == use' = [use EXCEPT ![u].at = at]
Ends(u) == use' = [use EXCEPT ![u] = NoUse]

Killed(u) ==
    /\ MayCrash /\ use[u] # NoUse
    /\ Ends(u) /\ UNCHANGED <<ext, loaded, approvals, useCount>>

-----------------------------------------------------------------------------
(* scaffold and write. *)

\* scaffold refuses a directory that exists.
MakeDirectory(u) ==
    /\ use[u].op \in Writers /\ use[u].at = "begin"
    /\ ext' = [ext EXCEPT !.dir = TRUE]
    /\ IF use[u].op = "create" /\ ext.dir THEN Ends(u) ELSE Goes(u, "manifest")
    /\ UNCHANGED <<loaded, approvals, useCount>>

WriteManifest(u) ==
    /\ use[u].at = "manifest"
    /\ ext' = [ext EXCEPT !.manifest = use[u].version]
    /\ Goes(u, "entry")
    /\ UNCHANGED <<loaded, approvals, useCount>>

WriteEntry(u) ==
    /\ use[u].at = "entry"
    /\ ext' = [ext EXCEPT !.entry = use[u].version]
    /\ IF use[u].op = "create" THEN Ends(u) ELSE Goes(u, "disable")
    /\ UNCHANGED <<loaded, approvals, useCount>>

\* disable, of its command and at the end of write, which then looks at what it
\* wrote.
Disable(u) ==
    /\ use[u].at = "disable" \/ use[u].op = "disable"
    /\ ext' = [ext EXCEPT !.enabled = NoDigest]
    /\ IF use[u].op = "disable" THEN Ends(u) ELSE Goes(u, "inspect")
    /\ UNCHANGED <<loaded, approvals, useCount>>

-----------------------------------------------------------------------------
(* inspect: the manifest, then the digest of the entry and the manifest. *)

Inspecting(u) == use[u].at = "inspect" \/ (use[u].op \in Readers /\ use[u].at = "begin")

\* What is read is refused (a file is missing, the syntax is wrong), or the
\* digest is read on.
Inspect(u) ==
    /\ Inspecting(u)
    /\ \/ Ends(u)
       \/ /\ Nothing \notin {ext.manifest, ext.entry}
          /\ use' = [use EXCEPT ![u].at = "digest", ![u].seen = Digest(Nothing, ext.entry)]
    /\ UNCHANGED <<ext, loaded, approvals, useCount>>

\* A bug: what is enabled is not compared.
IsActive(enabled, digest) == enabled # NoDigest

IsEnabled(enabled, digest) == enabled = digest

Then(u) == CASE use[u].op = "enable" -> "approve" [] use[u].op = "load" -> "compare" [] OTHER -> "done"

DigestRead(u) ==
    /\ use[u].at = "digest"
    /\ use' = [use EXCEPT ![u].at = Then(u), ![u].seen.manifest = ext.manifest]
    /\ UNCHANGED <<ext, loaded, approvals, useCount>>

Written(u) == use[u].at = "done" /\ Ends(u) /\ UNCHANGED <<ext, loaded, approvals, useCount>>

-----------------------------------------------------------------------------
(* enable and discoverEnabled. *)

Approve(u) ==
    /\ use[u].at = "approve"
    /\ ext' = [ext EXCEPT !.enabled = use[u].seen]
    /\ approvals' = approvals \cup {use[u].seen}
    /\ Ends(u)
    /\ UNCHANGED <<loaded, useCount>>

\* list compares; discoverEnabled inspects once more and compares no more.
Compare(u) ==
    /\ use[u].at = "compare"
    /\ IF IsEnabled(ext.enabled, use[u].seen) THEN Goes(u, "again") ELSE Ends(u)
    /\ UNCHANGED <<ext, loaded, approvals, useCount>>

InspectAgain(u) ==
    /\ use[u].at = "again"
    /\ \/ Ends(u)
       \/ /\ Nothing \notin {ext.manifest, ext.entry}
          /\ use' = [use EXCEPT ![u].at = "import", ![u].seen = Digest(ext.manifest, ext.entry)]
    /\ UNCHANGED <<ext, loaded, approvals, useCount>>

\* The import reads the entry as it is now.
Import(u) ==
    /\ use[u].at = "import"
    /\ \/ loaded' = loaded \cup {[digest |-> use[u].seen, code |-> ext.entry]}
       \/ UNCHANGED loaded
    /\ Ends(u)
    /\ UNCHANGED <<ext, approvals, useCount>>

UseStep(u) ==
    \/ MakeDirectory(u) \/ WriteManifest(u) \/ WriteEntry(u) \/ Disable(u) \/ Inspect(u)
    \/ DigestRead(u) \/ Written(u) \/ Approve(u) \/ Compare(u) \/ InspectAgain(u) \/ Import(u)

Next ==
    \E u \in Users :
        \/ UseStep(u) \/ Killed(u)
        \/ \E op \in {"create", "write"}, v \in Versions : Begins(u, op, v)
        \/ \E op \in {"enable", "disable", "load"} : Begins(u, op, Nothing)

Spec == Init /\ [][Next]_extVars

-----------------------------------------------------------------------------
(* Properties. *)

\* The files hold what was written, and what is enabled was approved.
TypeOK ==
    /\ {ext.manifest, ext.entry} \subseteq Versions \cup {Nothing}
    /\ ext.manifest # Nothing => ext.dir
    /\ ext.enabled \in approvals \cup {NoDigest}

\* A gateway loads approved code only, though writes may have been killed
\* between their files and approvals may come and go as it loads
\* (docs/operations/extensions.md:24, "approved code whose digest changes is
\* marked stale and is not loaded").  It does not hold if a write overlaps the
\* load.
LoadedIsApproved ==
    \A l \in loaded : l.digest \in approvals /\ l.code = l.digest.entry

=============================================================================
