----------------------------- MODULE Installer -----------------------------
(***************************************************************************)
(* kidsos-installer over kidsos-file-guard: the request store, the         *)
(* trusted-app registry, and the handlers of SubmitInstallRequest,         *)
(* SubmitExternalInstallRequest, ApproveRequest, DenyRequest and           *)
(* RevokeTrust.                                                            *)
(*                                                                         *)
(* The service has one thread, and a blocking D-Bus call does not run its  *)
(* event loop: one handler runs at a time and other calls wait.  A handler *)
(* is cut where it waits for another process (polkit, file-guard) or where *)
(* a crash would leave part of its writes behind.  Its clients may call    *)
(* any method on any request at any time; what the approvals window really *)
(* sends is the subject of module Approvals.                               *)
(***************************************************************************)
EXTENDS FileGuard

CONSTANTS
  Ids,        \* request ids, each used once
  Clients,    \* connections that call ApproveRequest, DenyRequest, RevokeTrust
  Documents,  \* the contents FileClassifier calls ordinary documents
  NoHash,     \* file_hash of a store request, which has none
  NoCall,     \* a client without a call on the bus
  NoClient    \* the client of a handler that has none

ASSUME DocumentsAssumption == Documents \subseteq Contents
ASSUME NoHashAssumption == NoHash \notin Contents
ASSUME ClientAssumption == NoClient \notin Clients
ASSUME NoCallAssumption ==
  NoCall \notin [op : {"approve", "deny", "revoke"}, id : Ids]

VARIABLES
  requests,    \* table requests: status, kind, file_path and file_hash by id
  trustedApps, \* table trusted_apps, as a set of rows; hash is its key
  inst,        \* the handler in progress
  calls,       \* each client's call that is on the bus and not taken yet
  grants       \* history: the hashes a parent authorised and has not revoked

storeVars == <<requests, trustedApps>>
vars == <<disk, guardVars, budget, storeVars, inst, calls, grants>>

ClientCall == [op : {"approve", "deny", "revoke"}, id : Ids]
Status == {"none", "pending", "approved", "denied", "failed"}
Request == [status : Status, kind : {"store", "external"},
            path : Paths \union {NoPath}, hash : Contents \union {NoHash}]
TrustedApp == [hash : Contents, path : Paths, request : Ids]

\* A row that has not been inserted.
NoRequest ==
  [status |-> "none", kind |-> "store", path |-> NoPath, hash |-> NoHash]

\* Where a handler stands: "polkit" waits for the parent's password, "hash"
\* is SubmitExternalInstallRequest after classify, "trust" is approveExternal
\* after the hashes matched, "guard" waits for file-guard, "record" has its
\* answer, "status" has written the registry.
Handler == [pc : {"idle", "polkit", "hash", "trust", "guard", "record",
                  "status"},
            op : {"none", "submit", "approve", "deny", "revoke"},
            id : Ids \union {NoHash},
            path : Paths \union {NoPath},
            client : Clients \union {NoClient}]
Resting == [pc |-> "idle", op |-> "none", id |-> NoHash, path |-> NoPath,
            client |-> NoClient]

\* Type correctness of the two services.
TypeOK ==
  /\ GuardTypeOK
  /\ requests \in [Ids -> Request]
  /\ \A i \in Ids : requests[i].kind = "external" =>
       requests[i].path \in Paths /\ requests[i].hash \in Contents
  /\ trustedApps \in SUBSET TrustedApp
  /\ inst \in Handler
  /\ inst.pc \notin {"idle", "hash"} => inst.id \in Ids
  /\ inst.pc = "hash" => inst.path \in Paths
  /\ inst.pc \in {"trust", "guard", "record", "status"} =>
       requests[inst.id].kind = "external"
  /\ calls \in [Clients -> ClientCall \union {NoCall}]
  /\ grants \in SUBSET Contents

Init ==
  /\ GuardInit
  /\ requests = [i \in Ids |-> NoRequest]
  /\ trustedApps = {}
  /\ inst = Resting
  /\ calls = [c \in Clients |-> NoCall]
  /\ grants = {}

----------------------------------------------------------------------------
(* The request store.                                                      *)

Exists(i) == requests[i].status # "none"
Pending(i) == requests[i].status = "pending"
External(i) == requests[i].kind = "external"

UpdateStatus(i, status) ==
  requests' = [requests EXCEPT ![i].status = status]

Insert(row) ==
  \E i \in Ids : ~Exists(i) /\ requests' = [requests EXCEPT ![i] = row]

\* Mutant of RecordTrust: INSERT OR IGNORE.
RecordTrustOnce(i) ==
  trustedApps' = IF \E a \in trustedApps : a.hash = requests[i].hash
                 THEN trustedApps
                 ELSE trustedApps \union {[hash |-> requests[i].hash,
                        path |-> requests[i].path, request |-> i]}

\* INSERT OR REPLACE on the primary key hash.
RecordTrust(i) ==
  trustedApps' = {a \in trustedApps : a.hash # requests[i].hash} \union
    {[hash |-> requests[i].hash, path |-> requests[i].path, request |-> i]}

RemoveTrust(hash) == trustedApps' = {a \in trustedApps : a.hash # hash}

\* Mutant of ListTrusted: the rows are known by their key.
ListTrustedHashes == {a.hash : a \in trustedApps}

\* The ids ListRequests shows as pending, and those behind ListTrustedApps.
ListPending == {i \in Ids : Pending(i)}
ListTrusted == {a.request : a \in trustedApps}

----------------------------------------------------------------------------
(* Submissions, by the launcher's store and the file-guard prompt.         *)

SubmitStore ==
  /\ inst.pc = "idle"
  /\ Insert([NoRequest EXCEPT !.status = "pending"])
  /\ UNCHANGED <<disk, guardVars, budget, trustedApps, inst, calls, grants>>

\* The file must exist and not be an ordinary document.
SubmitClassify ==
  /\ inst.pc = "idle"
  /\ \E p \in Paths :
       /\ disk[p] \in Contents \ Documents
       /\ inst' = [Resting EXCEPT !.pc = "hash", !.op = "submit", !.path = p]
  /\ UNCHANGED <<disk, guardVars, budget, storeVars, calls, grants>>

\* The file is read a second time to hash it: it may have changed since
\* classify, or be gone.
SubmitHash ==
  /\ inst.pc = "hash"
  /\ \/ /\ disk[inst.path] = NoFile
        /\ UNCHANGED requests
     \/ /\ disk[inst.path] # NoFile
        /\ Insert([status |-> "pending", kind |-> "external",
                   path |-> inst.path, hash |-> disk[inst.path]])
     \/ /\ \A i \in Ids : Exists(i)   \* the bound on ids is reached
        /\ UNCHANGED requests
  /\ inst' = Resting
  /\ UNCHANGED <<disk, guardVars, budget, trustedApps, calls, grants>>

----------------------------------------------------------------------------
(* Parent decisions.                                                       *)

\* A handler takes a client's call and asks polkit, which asks the parent.
TakeCall(c) ==
  /\ inst.pc = "idle"
  /\ calls[c] # NoCall
  /\ inst' = [Resting EXCEPT !.pc = "polkit", !.op = calls[c].op,
                             !.id = calls[c].id, !.client = c]
  /\ calls' = [calls EXCEPT ![c] = NoCall]
  /\ UNCHANGED <<disk, guardVars, budget, storeVars, grants>>

\* Wrong password, dismissed prompt, or no answer within 25 seconds.
PolkitRefuses ==
  /\ inst.pc = "polkit"
  /\ inst' = Resting
  /\ UNCHANGED <<disk, guardVars, budget, storeVars, calls, grants>>

\* The parent authorised an approval: only a pending request goes on, a
\* store request is approved outright, and an external one only if the
\* file still has the hash captured at submission.
Approve ==
  /\ inst.pc = "polkit" /\ inst.op = "approve"
  /\ LET i == inst.id IN
       \/ /\ ~Pending(i)
          /\ inst' = Resting
          /\ UNCHANGED <<requests, grants>>
       \/ /\ Pending(i) /\ ~External(i)
          /\ UpdateStatus(i, "approved")
          /\ inst' = Resting
          /\ UNCHANGED grants
       \/ /\ Pending(i) /\ External(i)
          /\ disk[requests[i].path] # requests[i].hash
          /\ UpdateStatus(i, "failed")
          /\ inst' = Resting
          /\ UNCHANGED grants
       \/ /\ Pending(i) /\ External(i)
          /\ disk[requests[i].path] = requests[i].hash
          /\ inst' = [inst EXCEPT !.pc = "trust"]
          /\ grants' = grants \union {requests[i].hash}
          /\ UNCHANGED requests
  /\ UNCHANGED <<disk, guardVars, budget, trustedApps, calls>>

\* file-guard is on the bus: call TrustFile with the hash just computed.
CallTrust ==
  /\ inst.pc = "trust"
  /\ Send("TrustFile", requests[inst.id].hash, requests[inst.id].path)
  /\ inst' = [inst EXCEPT !.pc = "guard"]
  /\ UNCHANGED <<disk, trustFile, trustExists, loaded, guard, budget,
                 storeVars, calls, grants>>

\* It is not (it has crashed and is being restarted): the approval fails.
GuardAbsent ==
  /\ inst.pc = "trust"
  /\ Spend("guardCrash")
  /\ UpdateStatus(inst.id, "failed")
  /\ inst' = Resting
  /\ UNCHANGED <<disk, guardVars, trustedApps, calls, grants>>

\* Any request that exists is denied, whatever was decided before.
Deny ==
  /\ inst.pc = "polkit" /\ inst.op = "deny"
  /\ IF Exists(inst.id) THEN UpdateStatus(inst.id, "denied")
                        ELSE UNCHANGED requests
  /\ inst' = Resting
  /\ UNCHANGED <<disk, guardVars, budget, trustedApps, calls, grants>>

\* Mutant of Revoke: the hash is not checked for being there.
RevokeAnything ==
  /\ inst.pc = "polkit" /\ inst.op = "revoke"
  /\ Send("RevokeFile", requests[inst.id].hash, NoPath)
  /\ inst' = [inst EXCEPT !.pc = "guard"]
  /\ UNCHANGED <<disk, trustFile, trustExists, loaded, guard, budget,
                 storeVars, calls, grants>>

\* Trust is revoked by hash; a request without one cannot be revoked.
Revoke ==
  /\ inst.pc = "polkit" /\ inst.op = "revoke"
  /\ \/ /\ ~External(inst.id)
        /\ inst' = Resting
        /\ UNCHANGED <<inbox, reply>>
     \/ /\ External(inst.id)
        /\ Send("RevokeFile", requests[inst.id].hash, NoPath)
        /\ inst' = [inst EXCEPT !.pc = "guard"]
  /\ UNCHANGED <<disk, trustFile, trustExists, loaded, guard, budget,
                 storeVars, calls, grants>>

\* file-guard answered true.  A completed revocation withdraws the grant.
GuardAccepts ==
  /\ inst.pc = "guard" /\ reply = "true"
  /\ inst' = [inst EXCEPT !.pc = "record"]
  /\ reply' = "none"
  /\ grants' = IF inst.op = "revoke" THEN grants \ {requests[inst.id].hash}
                                     ELSE grants
  /\ UNCHANGED <<disk, trustFile, trustExists, loaded, guard, inbox, budget,
                 storeVars, calls>>

\* Mutant of GiveUp: a failed revocation is recorded like an approval.
GiveUpAlways ==
  /\ UpdateStatus(inst.id, "failed")
  /\ inst' = Resting
  /\ reply' = "none"
  /\ UNCHANGED <<disk, trustFile, trustExists, loaded, guard, inbox,
                 trustedApps, calls, grants>>

\* The call came to nothing: a failed approval is recorded, a failed
\* revocation leaves everything as it was.
GiveUp ==
  /\ IF inst.op = "approve" THEN UpdateStatus(inst.id, "failed")
                            ELSE UNCHANGED requests
  /\ inst' = Resting
  /\ reply' = "none"
  /\ UNCHANGED <<disk, trustFile, trustExists, loaded, guard, inbox,
                 trustedApps, calls, grants>>

\* Mutant of GuardRefuses: TrustFile is tried again until it succeeds.
GuardRefusesRetry ==
  /\ inst.pc = "guard" /\ reply = "false"
  /\ IF inst.op = "approve"
     THEN /\ inst' = [inst EXCEPT !.pc = "trust"]
          /\ reply' = "none"
          /\ UNCHANGED <<disk, trustFile, trustExists, loaded, guard, inbox,
                         storeVars, calls, grants>>
     ELSE GiveUp
  /\ UNCHANGED budget

GuardRefuses ==
  /\ inst.pc = "guard" /\ reply = "false"
  /\ GiveUp
  /\ UNCHANGED budget

\* No answer within 25 seconds: the call is abandoned, not withdrawn.
GuardTimeout ==
  /\ inst.pc = "guard" /\ reply = "none"
  /\ Spend("timeout")
  /\ GiveUp

\* The registry follows file-guard.  The result of the SQL is ignored.
Record ==
  /\ inst.pc = "record"
  /\ \/ /\ IF inst.op = "approve" THEN RecordTrust(inst.id)
                                  ELSE RemoveTrust(requests[inst.id].hash)
        /\ UNCHANGED budget
     \/ /\ Spend("dbFail")
        /\ UNCHANGED trustedApps
  /\ inst' = [inst EXCEPT !.pc = "status"]
  /\ UNCHANGED <<disk, guardVars, requests, calls, grants>>

\* The decision is recorded last, and its result ignored too.
Finish ==
  /\ inst.pc = "status"
  /\ \/ /\ UpdateStatus(inst.id, IF inst.op = "approve" THEN "approved"
                                                        ELSE "denied")
        /\ UNCHANGED budget
     \/ /\ Spend("dbFail")
        /\ UNCHANGED requests
  /\ inst' = Resting
  /\ UNCHANGED <<disk, guardVars, trustedApps, calls, grants>>

\* The process dies and systemd starts it again.  Both tables survive;
\* calls on its connection, queued or half done, end in an error, and the
\* answer to a call it made is dropped by the bus.
InstallerCrash ==
  /\ Spend("installerCrash")
  /\ inst' = Resting
  /\ calls' = [c \in Clients |-> NoCall]
  /\ reply' = "none"
  /\ UNCHANGED <<disk, trustFile, trustExists, loaded, guard, inbox,
                 storeVars, grants>>

----------------------------------------------------------------------------
(* Specification.                                                          *)

\* A client puts a call on the bus.
PlaceCall(c, op, i) ==
  /\ calls[c] = NoCall
  /\ inst.client # c
  /\ calls' = [calls EXCEPT ![c] = [op |-> op, id |-> i]]

ClientCalls(c) ==
  /\ \E op \in {"approve", "deny", "revoke"}, i \in Ids : PlaceCall(c, op, i)
  /\ UNCHANGED <<disk, guardVars, budget, storeVars, inst, grants>>

\* A client gives up on its call after 25 seconds.  Nothing tells the
\* installer, which will handle the call all the same.
ClientGivesUp ==
  /\ Spend("timeout")
  /\ UNCHANGED <<disk, guardVars, storeVars, inst, calls, grants>>

\* Steps of the handlers that no fault is needed for.
HandlerStep ==
  \/ SubmitHash
  \/ \E c \in Clients : TakeCall(c)
  \/ Approve \/ CallTrust \/ Deny \/ Revoke
  \/ GuardAccepts \/ GuardRefuses
  \/ Record \/ Finish

\* Everything but the clients that call the installer.
ServiceNext ==
  \/ HandlerStep
  \/ SubmitStore \/ SubmitClassify
  \/ PolkitRefuses
  \/ GuardAbsent \/ GuardTimeout \/ InstallerCrash
  \/ (GuardNext \/ EditFile) /\ UNCHANGED <<storeVars, inst, calls, grants>>

Next == ServiceNext \/ ClientGivesUp \/ \E c \in Clients : ClientCalls(c)

Spec == Init /\ [][Next]_vars
----------------------------------------------------------------------------
(* Properties.                                                             *)

HashesOf(lines) == {l.hash : l \in lines}

\* The lines that the line breaks in the requested paths bring with them.
BroughtLines == UNION {Text[requests[i].path].brought : i \in {j \in Ids : External(j)}}

\* No content is in the trust file, or enforced as trusted, unless a parent
\* authorised exactly that content for a pending request and has not
\* completed its revocation since, or the text of a requested path spells its
\* whole line.  The parent's password, the re-hash in approveExternal, the
\* abandoned calls file-guard still works through and its rewrite of the whole
\* file all have to be right for this to hold, and where paths are plain there
\* is no exception.
OnlyGrantedTrusted ==
  HashesOf((trustFile \union loaded) \ BroughtLines) \subseteq grants

\* A request becomes approved only when fapolicyd enforces a line for its
\* path (as that path's text reads in a line) and hash, and the trust file would
\* give it back after a restart: ApproveRequest reports success after TrustFile
\* has, not before.
ApprovedMeansTrusted ==
  [][\A i \in Ids :
       External(i) /\ ~(requests[i].status = "approved")
                   /\ requests'[i].status = "approved" =>
         \E l \in trustFile' \intersect loaded' :
            l.path = Text[requests[i].path].entry /\ l.hash = requests[i].hash]_vars

\* A decision is never taken back into pending and a denied request never
\* becomes approved: the status check of ApproveRequest is made long before
\* the status is written, with two blocking calls in between.
DecisionsStand ==
  [][\A i \in Ids :
       requests'[i].status # requests[i].status =>
         <<requests[i].status, requests'[i].status>> \in
            {<<"none", "pending">>, <<"pending", "approved">>,
             <<"pending", "failed">>, <<"pending", "denied">>,
             <<"approved", "denied">>, <<"failed", "denied">>}]_vars

\* Both services are at rest.
Settled == inst.pc = "idle" /\ guard.pc = "idle" /\ inbox = <<>>

\* A path that is read back from its line as it was written, and in whose
\* text the filter finds no hash.
Plain(p) == Text[p] = [brought |-> {}, entry |-> p, quotes |-> {}]
AllPlain == \A i \in Ids : External(i) => Plain(requests[i].path)

\* Whenever both services are at rest, the registry the Trusted Apps tab
\* shows, the trust file and what fapolicyd enforces agree on every hash and
\* its path, so what is trusted is what a parent can see and revoke: as long
\* as every path a child has asked for is a plain one.
RegistryAgrees ==
  Settled /\ AllPlain =>
    /\ loaded = trustFile
    /\ {<<a.hash, a.path>> : a \in trustedApps} =
         {<<l.hash, l.path>> : l \in trustFile}

\* A trusted content stops being enforced only while its own revocation is
\* in progress, or a decision on a content whose hash its path quotes:
\* rewriting the file for one file drops no other.
OthersKeepTrust ==
  [][\A h \in HashesOf(loaded) \ HashesOf(loaded') :
       /\ inst.pc = "guard"
       /\ \/ inst.op = "revoke" /\ requests[inst.id].hash = h
          \/ \E l \in loaded : /\ l.hash = h
                               /\ requests[inst.id].hash \in Text[l.path].quotes]_vars

\* At rest, the content of a denied request is not enforced as trusted,
\* unless another request for the same content was approved (or a path spells
\* its line).
DeniedIsBlocked ==
  Settled =>
    \A i \in Ids :
      /\ External(i) /\ requests[i].status = "denied"
      /\ \A j \in Ids \ {i} : requests[j].hash # requests[i].hash
      => requests[i].hash \notin HashesOf(loaded \ BroughtLines)

\* The contents somebody asked for and no parent has decided about.
Asked == {requests[i].hash : i \in {j \in Ids : External(j) /\ Pending(j)}}

\* The lines that are in a file for a call, not for another path's text.
AnyBrought == UNION {Text[p].brought : p \in Paths}
OwnLines(lines) == lines \ AnyBrought

\* The services implement the trust model, with what is trusted being what
\* fapolicyd enforces now, or would after a restart, by a line of its own.
Trust == INSTANCE TrustModel
           WITH trusted <- HashesOf(OwnLines(trustFile \union loaded)),
                authorised <- grants,
                asked <- Asked

TrustSpec == Trust!TMSpec

----------------------------------------------------------------------------
(* The inductive invariants.                                               *)

\* An external request has been inserted.
ExternalExists == \A i \in Ids : External(i) => Exists(i)

\* Everything on its way into the trust file was authorised: the lines the
\* guard is about to write, the calls it has not taken, the call the
\* installer is about to make.
WorkGranted ==
  /\ HashesOf(guard.lines \ BroughtLines) \subseteq grants
  /\ \A k \in 1 .. Len(inbox) : inbox[k].op = "TrustFile" =>
       inbox[k].hash \in grants /\ Text[inbox[k].path].brought \subseteq BroughtLines
  /\ inst.pc = "trust" => requests[inst.id].hash \in grants

\* Only an approval reaches "trust", and only an approval or a revocation
\* has anything to do with file-guard.
HandlerMatches ==
  /\ inst.pc = "trust" => inst.op = "approve"
  /\ inst.pc \in {"guard", "record", "status"} =>
       inst.op \in {"approve", "revoke"}

\* What file-guard last wrote is part of what it meant to write.
GuardProgress ==
  /\ guard.pc = "idle" => guard.lines = {}
  /\ guard.pc = "reload" => trustFile \subseteq guard.lines

\* The lines carry out the call the installer waits for.
CarriesOut(lines) ==
  inst.op = "revoke" => requests[inst.id].hash \notin HashesOf(lines)

\* While the installer waits, the call it waits for is the last in the
\* inbox, or is in progress, or has been answered; and true means done.
AwaitedCall ==
  inst.pc = "guard" =>
    /\ inbox # <<>> =>
         LET last == inbox[Len(inbox)] IN
           /\ reply = "none"
           /\ last.hash = requests[inst.id].hash
           /\ last.op = IF inst.op = "approve" THEN "TrustFile"
                                               ELSE "RevokeFile"
    /\ inbox = <<>> /\ guard.pc # "idle" =>
         reply = "none" /\ CarriesOut(guard.lines)
    /\ reply = "true" => CarriesOut(trustFile \union loaded)

\* Inductive; OnlyGrantedTrusted alone is not, since what is granted has to
\* survive in calls and lines that are not in the trust file yet.
IInv == /\ TypeOK
        /\ ExternalExists
        /\ OnlyGrantedTrusted
        /\ WorkGranted
        /\ HandlerMatches
        /\ GuardProgress
        /\ AwaitedCall

\* A request under approval stays pending until the decision is written:
\* nothing else runs in between.
DecisionOpen ==
  inst.op = "approve" /\ inst.pc \in {"trust", "guard", "record", "status"}
    => Pending(inst.id)

\* The lines hold the request under approval.
HoldsRequest(lines) ==
  \E l \in lines : /\ l.path = Text[requests[inst.id].path].entry
                   /\ l.hash = requests[inst.id].hash

\* With writes that do not fail, the line of the request under approval goes
\* from the call to the guard's lines to the file to fapolicyd, and stays.
Delivery ==
  /\ guard.pc = "reload" => trustFile = guard.lines
  /\ inst.op = "approve" /\ inst.pc = "guard" =>
       /\ inbox # <<>> => inbox[Len(inbox)].path = requests[inst.id].path
       /\ inbox = <<>> /\ guard.pc # "idle" => HoldsRequest(guard.lines)
       /\ reply = "true" => HoldsRequest(trustFile \intersect loaded)
  /\ inst.op = "approve" /\ inst.pc \in {"record", "status"} =>
       /\ HoldsRequest(trustFile \intersect loaded)
       /\ inbox = <<>> /\ guard.pc = "idle"

\* As long as the installer neither dies nor gives up, the one call file-guard
\* has is the one it waits for.
OneCall ==
  /\ inst.pc # "guard" => inbox = <<>> /\ guard.pc = "idle"
  /\ inbox # <<>> => Len(inbox) = 1 /\ guard.pc = "idle"
  /\ inbox # <<>> \/ guard.pc # "idle" => reply = "none"

\* By hash and path, as the Trusted Apps tab and fapolicyd know a content: the
\* rows of the registry, and lines.
Rows == {<<a.hash, a.path>> : a \in trustedApps}
Entries(lines) == {<<l.hash, l.path>> : l \in lines}

\* What the handler in progress makes of them.
Outcome(entries) ==
  {e \in entries : e[1] # requests[inst.id].hash} \union
    (IF inst.op = "approve"
     THEN {<<requests[inst.id].hash, requests[inst.id].path>>} ELSE {})

\* The file is a step ahead of the registry while it is, or has been,
\* rewritten for a call the registry does not record yet.
Ahead ==
  \/ inst.pc = "guard" /\ (reply = "true" \/ guard.pc \in {"write", "reload"})
  \/ inst.pc = "record"

\* Every row of the registry is for the path of a request.
RowsRequested ==
  \A a \in trustedApps : \E i \in Ids : External(i) /\ requests[i].path = a.path

\* The registry, the trust file and fapolicyd follow each other through a
\* handler, as long as every write and reload takes effect.
RegistryInv ==
  /\ ~Ahead => Entries(trustFile) = Rows
  /\ Ahead /\ guard.pc # "write" => Entries(trustFile) = Outcome(Rows)
  /\ guard.pc # "idle" => Entries(guard.lines) = Outcome(Rows)
  /\ guard.pc \in {"idle", "truncate"} => loaded = trustFile

\* The rewrite in progress drops nothing but the hash it revokes and lines
\* that mention the hash it is for.
RewriteKeeps ==
  /\ guard.pc \in {"idle", "truncate"} => loaded = trustFile
  /\ guard.pc # "idle" =>
       \A h \in HashesOf(loaded) \ HashesOf(guard.lines) :
         \/ inst.op = "revoke" /\ requests[inst.id].hash = h
         \/ \E l \in loaded : /\ l.hash = h
                              /\ requests[inst.id].hash \in Text[l.path].quotes
============================================================================
