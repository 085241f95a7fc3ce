----------------------------- MODULE FileGuard -----------------------------
(***************************************************************************)
(* kidsos-file-guard: the root service that rewrites fapolicyd's trust     *)
(* file for kidsos-installer, its only caller, and asks fapolicyd to       *)
(* reload it.  The service handles one call at a time; a handler is cut    *)
(* where the rest of the system can see it: after the trust file is read,  *)
(* truncated, written, and reloaded.                                       *)
(*                                                                         *)
(* A content stands for its SHA-256 (no collisions), so a hash is an       *)
(* element of Contents.  The order of the trust file's lines is dropped.   *)
(*                                                                         *)
(* A line is text, and a path is written into it as it is.  What fapolicyd *)
(* and the service's own filter read back depends on the path's text,      *)
(* which the constant Text sums up: most paths are plain, but one may hold *)
(* a line break, a marker of QString::arg, or 64 hexadecimal digits.       *)
(***************************************************************************)
EXTENDS Naturals, Sequences

CONSTANTS
  Paths,      \* absolute paths a child can write to, and what a line's may read
  Text,       \* what each path's text does to the line it is written into
  Contents,   \* file contents, each standing for its hash
  NoFile,     \* what disk holds at a path without a file
  NoPath,     \* the path argument of a call that has none
  SizeOf,     \* size in bytes of each content
  Faults,     \* the kinds of fault that may occur
  MaxFaults   \* how many of them may occur in a behaviour

FaultKinds == {"timeout", "guardCrash", "installerCrash", "readFail", "openFail",
               "writeFail", "reloadFail", "dbFail", "fapolicydRestart"}

Line == [path : Paths, size : Nat, hash : Contents]

\* Of a path written into a line: the further lines that its line breaks bring
\* with them, the path the line itself is then read back with, and the hashes
\* that occur in it.
PathText == [brought : SUBSET Line, entry : Paths, quotes : SUBSET Contents]

ASSUME SentinelAssumption == NoFile \notin Contents /\ NoPath \notin Paths
ASSUME SizeAssumption == SizeOf \in [Contents -> Nat]
ASSUME TextAssumption == Text \in [Paths -> PathText]
ASSUME FaultAssumption == Faults \subseteq FaultKinds /\ MaxFaults \in Nat

VARIABLES
  disk,        \* the file at each path, outside the two services
  trustFile,   \* the lines of /etc/fapolicyd/trust.d/kidsos-approved.trust
  trustExists, \* whether that file has been created
  loaded,      \* the lines fapolicyd enforces
  guard,       \* the handler in progress: where it stands and its lines
  inbox,       \* calls sent to the service and not taken yet, in order
  reply,       \* the answer to the last call sent, "none" before it
  budget       \* faults that may still occur

guardVars == <<trustFile, trustExists, loaded, guard, inbox, reply>>

GuardCall == [op : {"TrustFile", "RevokeFile"}, hash : Contents,
              path : Paths \union {NoPath}]
GuardState == [pc : {"idle", "truncate", "write", "reload"},
               lines : SUBSET Line]
Idle == [pc |-> "idle", lines |-> {}]

GuardTypeOK ==
  /\ disk \in [Paths -> Contents \union {NoFile}]
  /\ trustFile \in SUBSET Line
  /\ trustExists \in BOOLEAN
  /\ loaded \in SUBSET Line
  /\ guard \in GuardState
  /\ inbox \in Seq(GuardCall)
  /\ \A i \in 1 .. Len(inbox) :
       inbox[i].op = "TrustFile" => inbox[i].path \in Paths
  /\ reply \in {"none", "true", "false"}
  /\ budget \in 0 .. MaxFaults

GuardInit ==
  /\ disk \in [Paths -> Contents]
  /\ trustFile = {}
  /\ trustExists = FALSE
  /\ loaded = {}
  /\ guard = Idle
  /\ inbox = <<>>
  /\ reply = "none"
  /\ budget = MaxFaults

\* A fault happens: one fewer may still occur.
Spend(fault) ==
  /\ fault \in Faults
  /\ budget > 0
  /\ budget' = budget - 1

\* line.contains(hash): as the line's hash, or anywhere in its path.
Mentions(line, hash) == line.hash = hash \/ hash \in Text[line.path].quotes

\* Mutants of Without: no line is filtered out; no line is read back.
KeepEveryLine(lines, hash) == lines
KeepNoLine(lines, hash) == {}

\* The lines of `lines` that do not mention `hash`.
Without(lines, hash) == {l \in lines : ~Mentions(l, hash)}

\* What "%1 %2 %3" with a path, a size and a hash comes to in the file.
LinesOf(path, size, hash) ==
  Text[path].brought \union
    {[path |-> Text[path].entry, size |-> size, hash |-> hash]}

----------------------------------------------------------------------------
(* The caller's side of the bus.                                           *)

\* kidsos-installer puts a call on the bus; the answer it awaits is the
\* answer to this call and to no earlier one.
Send(op, hash, path) ==
  /\ inbox' = Append(inbox, [op |-> op, hash |-> hash, path |-> path])
  /\ reply' = "none"

\* Mutant of Answer: the answer to an abandoned call is taken for the one
\* to the call that came after it.
AnswerWhoeverWaits(value, left) == reply' = value

\* The answer to the call in progress, with the calls in `left` behind it:
\* only the last call sent still has a caller that waits for it.
Answer(value, left) == reply' = IF left = <<>> THEN value ELSE reply

----------------------------------------------------------------------------
(* The handlers.                                                           *)

Take(op) ==
  /\ guard.pc = "idle"
  /\ inbox # <<>>
  /\ Head(inbox).op = op
  /\ inbox' = Tail(inbox)

\* The lines TrustFile keeps: those without the hash, or none at all when the
\* trust file cannot be opened for reading.
ReadsBack(kept, hash) ==
  \/ kept = Without(trustFile, hash) /\ UNCHANGED budget
  \/ kept = {} /\ Spend("readFail")

\* TrustFile up to the rewrite: the file must exist; its size is that of
\* what it holds now, whatever content the hash in the call came from.  A
\* trust file that cannot be read is rewritten all the same.
TakeTrust ==
  /\ Take("TrustFile")
  /\ LET call == Head(inbox) IN
       \/ /\ disk[call.path] = NoFile
          /\ Answer("false", Tail(inbox))
          /\ UNCHANGED <<guard, budget>>
       \/ /\ disk[call.path] # NoFile
          /\ \E kept \in {Without(trustFile, call.hash), {}} :
               /\ ReadsBack(kept, call.hash)
               /\ guard' = [pc |-> "truncate",
                            lines |-> kept \union
                                      LinesOf(call.path, SizeOf[disk[call.path]],
                                              call.hash)]
          /\ UNCHANGED reply
  /\ UNCHANGED <<disk, trustFile, trustExists, loaded>>

\* RevokeFile up to the rewrite: without a trust file it can read it fails.
TakeRevoke ==
  /\ Take("RevokeFile")
  /\ \/ /\ \/ ~trustExists /\ UNCHANGED budget
           \/ Spend("readFail")
        /\ Answer("false", Tail(inbox))
        /\ UNCHANGED guard
     \/ /\ trustExists
        /\ guard' = [pc |-> "truncate",
                     lines |-> Without(trustFile, Head(inbox).hash)]
        /\ UNCHANGED <<reply, budget>>
  /\ UNCHANGED <<disk, trustFile, trustExists, loaded>>

\* Opening the file for writing empties it.
Truncate ==
  /\ guard.pc = "truncate"
  /\ trustFile' = {}
  /\ trustExists' = TRUE
  /\ guard' = [guard EXCEPT !.pc = "write"]
  /\ UNCHANGED <<disk, loaded, inbox, reply, budget>>

OpenFails ==
  /\ guard.pc = "truncate"
  /\ Spend("openFail")
  /\ guard' = Idle
  /\ Answer("false", inbox)
  /\ UNCHANGED <<disk, trustFile, trustExists, loaded, inbox>>

Write ==
  /\ guard.pc = "write"
  /\ trustFile' = guard.lines
  /\ guard' = [guard EXCEPT !.pc = "reload"]
  /\ UNCHANGED <<disk, trustExists, loaded, inbox, reply, budget>>

\* The stream's status is never read: a full disk loses lines and the
\* handler goes on as if they were written.
WriteFails ==
  /\ guard.pc = "write"
  /\ Spend("writeFail")
  /\ trustFile' \in SUBSET guard.lines
  /\ guard' = [guard EXCEPT !.pc = "reload"]
  /\ UNCHANGED <<disk, trustExists, loaded, inbox, reply>>

\* Mutant of Reload: fapolicyd only learns of new lines.
ReloadAdds ==
  /\ guard.pc = "reload"
  /\ loaded' = loaded \union trustFile
  /\ guard' = Idle
  /\ Answer("true", inbox)
  /\ UNCHANGED <<disk, trustFile, trustExists, inbox, budget>>

Reload ==
  /\ guard.pc = "reload"
  /\ loaded' = trustFile
  /\ guard' = Idle
  /\ Answer("true", inbox)
  /\ UNCHANGED <<disk, trustFile, trustExists, inbox, budget>>

\* Mutant of ReloadFails: the exit code of fapolicyd-cli is not returned.
ReloadFailsQuietly ==
  /\ guard.pc = "reload"
  /\ Spend("reloadFail")
  /\ guard' = Idle
  /\ Answer("true", inbox)
  /\ UNCHANGED <<disk, trustFile, trustExists, loaded, inbox>>

\* fapolicyd-cli fails: the handler answers false and leaves the file as
\* it wrote it.
ReloadFails ==
  /\ guard.pc = "reload"
  /\ Spend("reloadFail")
  /\ guard' = Idle
  /\ Answer("false", inbox)
  /\ UNCHANGED <<disk, trustFile, trustExists, loaded, inbox>>

\* The process dies between two steps and systemd starts it again: its
\* calls are lost, and the bus answers the last of them with an error.
GuardCrash ==
  /\ Spend("guardCrash")
  /\ guard' = Idle
  /\ inbox' = <<>>
  /\ reply' = IF guard.pc # "idle" \/ inbox # <<>> THEN "false" ELSE reply
  /\ UNCHANGED <<disk, trustFile, trustExists, loaded>>

----------------------------------------------------------------------------
(* The world outside the service.                                          *)

\* fapolicyd starts again (a reboot, an update) and reads whatever the
\* trust file holds.
FapolicydRestart ==
  /\ Spend("fapolicydRestart")
  /\ loaded' = trustFile
  /\ UNCHANGED <<disk, trustFile, trustExists, guard, inbox, reply>>

\* The child writes, replaces or removes a file.
EditFile ==
  /\ \E p \in Paths, c \in Contents \union {NoFile} :
       disk' = [disk EXCEPT ![p] = c]
  /\ UNCHANGED <<guardVars, budget>>

GuardNext ==
  \/ TakeTrust \/ TakeRevoke
  \/ Truncate \/ OpenFails
  \/ Write \/ WriteFails
  \/ Reload \/ ReloadFails
  \/ GuardCrash
  \/ FapolicydRestart

GuardStep == TakeTrust \/ TakeRevoke \/ Truncate \/ Write \/ Reload
============================================================================
