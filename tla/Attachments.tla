----------------------------- MODULE Attachments ------------------------------
(***************************************************************************)
(* fms-attachment: a file belongs to a row of another table (a work order, an  *)
(* asset, a node, a reservation), without a foreign key.  Its bytes are an      *)
(* object in a bucket, its name and key a row.  The two stores are written one  *)
(* after the other: the object first when a file is uploaded, the row first     *)
(* when it is deleted.  Between the two a request can fail, or another can     *)
(* run.  A download address is signed without a look at the bucket.            *)
(***************************************************************************)
EXTENDS Naturals

CONSTANTS
  FileKeys,      \* keys: object_key() makes a new one for every upload
  Owners,     \* the rows that files are attached to
  FileTasks,  \* server tasks
  MaxServed    \* bound: requests

ASSUME AttachmentAssumption == MaxServed \in Nat

VARIABLES
  attached,  \* attached[f]: the committed row of fms.attachments
  object,    \* keys of the objects in the bucket
  owner,     \* the owners that are not deleted
  call,      \* call[t]: the request a task works on
  given,     \* history: files of the download addresses handed out
  lost,      \* history: objects that a failure left in the bucket
  served      \* requests so far

fileVars == <<attached, object, owner, call, given, lost, served>>

NoServe == [step |-> "idle"]
States == {"none", "live", "deleted"}
FileTypeOK ==
  /\ attached \in [FileKeys -> [state : States, on : Owners \cup {"nobody"}]]
  /\ object \subseteq FileKeys /\ given \subseteq FileKeys /\ lost \subseteq FileKeys
  /\ owner \subseteq Owners
  /\ call \in [FileTasks ->
       {NoServe} \cup [step : {"put", "insert", "mark", "remove"}, file : FileKeys, on : Owners]
         \cup [step : {"sign"}, files : SUBSET FileKeys]]
  /\ served \in 0..MaxServed

FilesInit ==
  /\ attached = [f \in FileKeys |-> [state |-> "none", on |-> "nobody"]]
  /\ owner = Owners
  /\ object = {} /\ given = {} /\ lost = {}
  /\ call = [t \in FileTasks |-> NoServe]
  /\ served = 0

-----------------------------------------------------------------------------
LiveFile(f) == attached[f].state = "live"

(* A request begins: what it is about has been found, and what that is on, too.   *)
Serve(t, new) ==
  /\ call[t] = NoServe /\ served < MaxServed
  /\ served' = served + 1
  /\ call' = [call EXCEPT ![t] = new]
  /\ UNCHANGED <<attached, object, owner, given, lost>>
Advance(t, new) == call' = [call EXCEPT ![t] = new] /\ UNCHANGED <<owner, served>>
To(t, step) == [call[t] EXCEPT !.step = step]

(* POST /attachments: the key is of no other upload.                            *)
UnusedKey(f) ==
  /\ attached[f].state = "none" /\ f \notin object
  /\ \A u \in FileTasks : call[u].step \in {"put", "insert"} => call[u].file # f
BeginUpload(t, f, o) ==
  UnusedKey(f) /\ o \in owner /\ Serve(t, [step |-> "put", file |-> f, on |-> o])
PutObject(t) ==
  /\ call[t].step = "put"
  /\ object' = object \cup {call[t].file}
  /\ Advance(t, To(t, "insert"))
  /\ UNCHANGED <<attached, given, lost>>
(* The upload fails, or only its answer is lost.                               *)
PutFails(t, stored) ==
  /\ call[t].step = "put"
  /\ object' = object \cup stored /\ lost' = lost \cup stored
  /\ stored \subseteq {call[t].file}
  /\ Advance(t, NoServe)
  /\ UNCHANGED <<attached, given>>
CommitFile(t) ==
  /\ call[t].step = "insert"
  /\ attached' = [attached EXCEPT ![call[t].file] = [state |-> "live", on |-> call[t].on]]
  /\ given' = given \cup {call[t].file}
  /\ Advance(t, NoServe)
  /\ UNCHANGED <<object, lost>>

(* GET of one file or of all of an owner: rows are read, then addresses signed.   *)
ReadFiles(t, fs) ==
  /\ \A f \in fs : LiveFile(f) /\ attached[f].on \in owner
  /\ Serve(t, [step |-> "sign", files |-> fs])
GetFile(t, f) == ReadFiles(t, {f})
ListFiles(t, o) == o \in owner /\ ReadFiles(t, {f \in FileKeys : LiveFile(f) /\ attached[f].on = o})
SignAddresses(t) ==
  /\ call[t].step = "sign"
  /\ given' = given \cup call[t].files
  /\ Advance(t, NoServe)
  /\ UNCHANGED <<attached, object, lost>>

(* DELETE /attachments/{id}: the row is marked, if it is still live, and            *)
(* committed; then the object goes.  A failure of that is only logged.          *)
BeginRemoval(t, f) ==
  /\ LiveFile(f) /\ attached[f].on \in owner
  /\ Serve(t, [step |-> "mark", file |-> f, on |-> attached[f].on])

MarkFile(t) ==
  /\ call[t].step = "mark"
  /\ attached' = [attached EXCEPT ![call[t].file].state = "deleted"]
  /\ Advance(t, To(t, "remove"))
  /\ UNCHANGED <<object, given, lost>>
RemoveObject(t) ==
  /\ call[t].step = "remove"
  /\ object' = object \ {call[t].file}
  /\ Advance(t, NoServe)
  /\ UNCHANGED <<attached, given, lost>>
RemoveFails(t) ==
  /\ call[t].step = "remove"
  /\ lost' = lost \cup {call[t].file}
  /\ Advance(t, NoServe)
  /\ UNCHANGED <<attached, object, given>>

(* The process dies, or a statement fails: no row, and maybe an object.            *)
DropCall(t) ==
  /\ call[t].step \in {"insert", "mark", "sign"}
  /\ lost' = lost \cup (IF call[t].step = "insert" THEN {call[t].file} ELSE {})
  /\ Advance(t, NoServe)
  /\ UNCHANGED <<attached, object, given>>

(* The row that files are attached to is deleted, with no look at them.           *)
DropOwner(o) ==
  /\ o \in owner
  /\ owner' = owner \ {o}
  /\ UNCHANGED <<attached, object, call, given, lost, served>>

FilesNext ==
  \/ \E t \in FileTasks :
       \/ \E f \in FileKeys : GetFile(t, f) \/ BeginRemoval(t, f) \/ \E o \in owner : BeginUpload(t, f, o)
       \/ \E o \in owner : ListFiles(t, o)
       \/ PutObject(t) \/ \E stored \in SUBSET FileKeys : PutFails(t, stored)
       \/ CommitFile(t) \/ SignAddresses(t) \/ MarkFile(t) \/ RemoveObject(t) \/ RemoveFails(t)
       \/ DropCall(t)
  \/ \E o \in owner : DropOwner(o)

FilesSpec == FilesInit /\ [][FilesNext]_fileVars

-----------------------------------------------------------------------------
(* No row names an object that is not there, and no address that was handed out     *)
(* led nowhere unless its file was deleted; whatever fails, and whoever deletes at  *)
(* the same time.                                                          *)
RowsHaveObjects == \A f \in FileKeys : LiveFile(f) => f \in object
AddressesLead == \A f \in given : f \in object \/ attached[f].state = "deleted"

(* An object without a live row is one that a request is still busy with, or that    *)
(* a failure has left behind, and nothing else.                                 *)
InHand(f) == \E t \in FileTasks : call[t].step \in {"insert", "remove"} /\ call[t].file = f
OrphansAreKnown == \A f \in object : LiveFile(f) \/ InHand(f) \/ f \in lost

FilesAreSound == RowsHaveObjects /\ AddressesLead /\ OrphansAreKnown
=============================================================================
