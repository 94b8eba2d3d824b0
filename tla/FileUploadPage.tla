---------------------------- MODULE FileUploadPage ----------------------------
(***************************************************************************)
(* The attachment dialog of the forms (webpage/modules/common/             *)
(* fileUpload.jsp with fileupload.js) on top of WebUploader: uploading     *)
(* starts by itself, there is no start, stop or retry button, and each     *)
(* listed file has a remove link.  The page keeps its own count against    *)
(* the form's fileNumLimit.  fileupload.js is stored encoded on one line;  *)
(* its definitions are translated from the decoded text.                   *)
(***************************************************************************)
EXTENDS WebUploader, Integers

CONSTANTS
  Existing,    (* attachments the form already has, listed by init()       *)
  Limit,       (* fileNumLimit                                             *)
  MaxRemoves   (* bound: clicks on a remove link                           *)

ASSUME PageAssumption ==
  /\ Existing \cap File = {} /\ IsFiniteSet(Existing)
  /\ Limit \in Nat /\ MaxRemoves \in Nat

VARIABLES
  starts,      (* upload() calls due: options.auto                         *)
  count,       (* the page's count of files                                *)
  listed,      (* files shown: new ones and attachments                    *)
  deleting,    (* listed files whose deletion the server was asked for     *)
  removes,     (* clicks on a remove link so far                           *)
  thrown       (* files whose uploadSuccess handler ended in a TypeError   *)

listVars == <<count, listed, deleting, removes, thrown>>
pageVars == <<starts, listVars>>
allVars == <<vars, pageVars>>

(* init() lists the attachments and returns how many there are.  The page   *)
(* does not set "chunked": a file is one block.                             *)
PageInit ==
  /\ Init /\ \A f \in File : Chunks[f] = 1
  /\ starts = 0 /\ listed = Existing
  /\ count = Cardinality(Existing)
  /\ deleting = {} /\ removes = 0 /\ thrown = {}

(* beforeFileQueued refuses a file at the limit; fileQueued counts and     *)
(* lists it.                                                               *)
ChooseFile(f) ==
  /\ count < Limit
  /\ AddFile(f)
  /\ starts' = starts + 1
  /\ count' = count + 1
  /\ listed' = listed \cup {f}
  /\ UNCHANGED <<deleting, removes, thrown>>

(* upload(), 20 ms after a file was queued. *)
AutoStart ==
  /\ starts > 0
  /\ starts' = starts - 1
  /\ StartUpload(status)
  /\ UNCHANGED <<clicks, listVars>>

(* A listed file has a data-id if the form brought it or uploadSuccess got  *)
(* through: then the server is asked to delete it.                         *)
HasId(f) == f \in Existing \/ (status[f] = "complete" /\ f \notin thrown)

(* The remove link: without a data-id the file is dequeued, which counts   *)
(* down, with one the server is asked; the click handler itself counts     *)
(* down again in both cases.  A second click on an item while its deletion *)
(* is under way is left out.                                               *)
ClickRemoveOnce(f) ==
  /\ f \in listed \ deleting /\ removes < MaxRemoves
  /\ removes' = removes + 1
  /\ IF HasId(f)
     THEN deleting' = deleting \cup {f} /\ UNCHANGED <<vars, listed, count>>
     ELSE /\ RemoveFile(f)
          /\ listed' = listed \ {f} /\ count' = count - 1
          /\ UNCHANGED deleting
  /\ UNCHANGED <<starts, thrown>>
ClickRemove(f) ==
  /\ f \in listed \ deleting /\ removes < MaxRemoves
  /\ removes' = removes + 1
  /\ IF HasId(f)
     THEN /\ deleting' = deleting \cup {f}
          /\ count' = count - 1
          /\ UNCHANGED <<vars, listed>>
     ELSE /\ RemoveFile(f)
          /\ listed' = listed \ {f}
          /\ count' = count - 2
          /\ UNCHANGED deleting
  /\ UNCHANGED <<starts, thrown>>

(* The server's answer to the deletion: on success a new file is dequeued  *)
(* (which counts down) and the item goes; on failure it stays listed.      *)
Deleted(f) ==
  /\ f \in deleting
  /\ deleting' = deleting \ {f}
  /\ listed' = listed \ {f}
  /\ IF f \in File
     THEN RemoveFile(f) /\ count' = count - 1
     ELSE UNCHANGED <<vars, count>>
  /\ UNCHANGED <<starts, removes, thrown>>

DeleteFails(f) ==
  /\ f \in deleting
  /\ deleting' = deleting \ {f}
  /\ UNCHANGED <<vars, starts, count, listed, removes, thrown>>

(* uploadSuccess first reads ret.body.id and then ret.body.url: it throws    *)
(* when there is no answer, or one without them.  The file is complete by   *)
(* then, and uploadComplete, which would give up its blocks, is not         *)
(* triggered any more.                                                     *)
HandlerThrows(f) ==
  /\ status' = [status EXCEPT ![f] = "complete"]
  /\ thrown' = thrown \cup {f}
  /\ UNCHANGED <<queue, pool, remaning, sending, transport, left, retried,
                 cutVars, flagVars, dueVars, logVars,
                 starts, count, listed, deleting, removes>>

(* A file removed while it was prepared is never sent and has no answer; its*)
(* preparation's promise is then never resolved.                           *)
SuccessThrows(f) ==
  /\ promise = f /\ skipping /\ f \notin thrown
  /\ HandlerThrows(f)
  /\ UNCHANGED finishing

(* The 2xx answer to a file that was sent is not what the upload action     *)
(* returns: the login page, say, of a session that has expired, which       *)
(* parses to {}.                                                           *)
AnswerThrows(f) ==
  /\ f \in finishing
  /\ finishing' = finishing \ {f}
  /\ HandlerThrows(f)

(* A request that was answered has no other answer and no timeout to come.  *)
Engine ==
  \/ TickSend \/ TickFetch \/ TickIdle \/ UploadFinished
  \/ \E f \in File : Prepared(f) \/ PrepareFails(f) \/ FinishFile(f)
  \/ \E f \in File : \E k \in 1..Chunks[f] : BeforeSend(f, k)
  \/ \E f \in File \ thrown : \E k \in 1..Chunks[f] : Load(f, k) \/ Fail(f, k)

PageNext ==
  \/ \E f \in File : ChooseFile(f) \/ SuccessThrows(f) \/ AnswerThrows(f)
  \/ \E f \in File \cup Existing : ClickRemove(f) \/ Deleted(f) \/ DeleteFails(f)
  \/ AutoStart
  \/ Engine /\ UNCHANGED pageVars

PageFairness ==
  /\ WF_allVars((TickSend \/ TickFetch \/ TickIdle) /\ UNCHANGED pageVars)
  /\ WF_allVars(UploadFinished /\ UNCHANGED pageVars)
  /\ WF_allVars(AutoStart)
  /\ \A f \in File :
       /\ WF_allVars((Prepared(f) \/ PrepareFails(f)) /\ UNCHANGED pageVars)
       /\ WF_allVars(SuccessThrows(f))
       /\ WF_allVars((FinishFile(f) /\ UNCHANGED pageVars) \/ AnswerThrows(f))
       /\ WF_allVars(Deleted(f) \/ DeleteFails(f))
       /\ \A k \in 1..Chunks[f] :
            /\ WF_allVars(BeforeSend(f, k) /\ UNCHANGED pageVars)
            /\ WF_allVars(/\ f \notin thrown
                          /\ (Load(f, k) \/ Fail(f, k)) /\ UNCHANGED pageVars)

PageSpec == PageInit /\ [][PageNext]_allVars
FairPageSpec == PageSpec /\ PageFairness

--------------------------------------------------------------------------------

(* The page refuses no file while fewer than Limit are listed: its count   *)
(* never exceeds what the user sees, in whatever order removals, deletions *)
(* and their answers arrive.                                               *)
CountAtMostListed == count <= Cardinality(listed)

(* The handler of the file being prepared has thrown, or that of a file     *)
(* which has its slot still.                                               *)
HeldUp == promise \in thrown \/ \E b \in transport : b[1] \in thrown

(* The engine starts every chosen file in the end, whatever is removed,     *)
(* fails or is deleted meanwhile, unless a success handler has thrown and   *)
(* the dialog is held up by it for good (startUpload schedules no tick      *)
(* while the uploader runs, and it runs as long as a slot is taken).        *)
ServedUnlessHeldUp ==
  \A f \in File : status[f] \in {"inited", "queued"}
                  ~> (status[f] \notin {"inited", "queued"} \/ []HeldUp)

(* The remove link dequeues the file, which destroys its request. *)
Removable(f) == f \in listed \ (deleting \cup dequeued) /\ ~HasId(f)

(* Every slot comes free again: its block has a before-send callback, an    *)
(* answer or an after-send-file callback to come, or its file's success     *)
(* handler has thrown and the user can remove the file, which gives the     *)
(* slot back (the answer's handler sets no data-id before it throws).       *)
SlotsReleased ==
  \A b \in pool :
    \/ b \in sending
    \/ b[1] \notin thrown /\ (OnWire(b[1], b[2]) \/ b[1] \in finishing)
    \/ b[1] \in thrown /\ b \in transport /\ Removable(b[1])
================================================================================
