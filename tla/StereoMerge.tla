----------------------------- MODULE StereoMerge -----------------------------
(***************************************************************************)
(* Dual-channel recordings.  wazo-calld and wazo-agid start recordings,    *)
(* each in its stock way until it is patched in memory.  The patched way   *)
(* has Asterisk write, beside the mono mix out.wav, one feed for each      *)
(* direction, and run stereo_merge.py when the recording stops; that       *)
(* process puts a 2-channel file in the place of the mono mix and removes  *)
(* the feeds.                                                              *)
(*                                                                         *)
(* Anything may stop the process between two of its file operations, sox   *)
(* may fail in the middle of its output, and a user or a retention job may *)
(* delete the recording at any time.                                       *)
(***************************************************************************)
CONSTANT Recordings

Feeds == {"rx", "tx"}
Starters == {"calld", "agid"}

VARIABLES
    patched,     \* the processes that start recordings the patched way
    dual,        \* whether a recording was started that way
    pc,          \* what Asterisk and the merge process of a recording are at
    out,         \* out.wav
    feed,        \* the two feeds: absent, of size 0, or with content
    scratch,     \* the hidden file sox writes
    answer,      \* whether its start seemed to go well
    exit,        \* how merge() ended
    stuck        \* history: files the process could not remove

vars == <<patched, dual, pc, out, feed, scratch, answer, exit, stuck>>
asked == <<patched, dual, answer>>

Merging == {"checking", "sox", "hung", "replacing", "rmScratch", "rmRx", "rmTx"}

TypeOK ==
    /\ patched \subseteq Starters
    /\ dual \in [Recordings -> BOOLEAN]
    /\ pc \in [Recordings -> {"idle", "recording", "plain", "exited", "killed"} \union Merging]
    /\ out \in [Recordings -> {"none", "growing", "mono", "half", "stereo", "deleted"}]
    /\ feed \in [Recordings -> [Feeds -> {"none", "empty", "audio"}]]
    /\ scratch \in [Recordings -> {"none", "half", "whole"}]
    /\ answer \in [Recordings -> {"none", "started", "error"}]
    /\ exit \in [Recordings -> {"none", "ok", "failed", "raised"}]
    /\ stuck \in [Recordings -> SUBSET (Feeds \union {"scratch"})]
    /\ \A r \in Recordings :
        /\ pc[r] = "replacing" => scratch[r] = "whole"
        /\ pc[r] = "exited" => exit[r] # "none"
        /\ pc[r] \in Merging => dual[r]

Init ==
    /\ patched = {}
    /\ dual = [r \in Recordings |-> FALSE]
    /\ pc = [r \in Recordings |-> "idle"]
    /\ out = [r \in Recordings |-> "none"]
    /\ feed = [r \in Recordings |-> [f \in Feeds |-> "none"]]
    /\ scratch = [r \in Recordings |-> "none"]
    /\ answer = [r \in Recordings |-> "none"]
    /\ exit = [r \in Recordings |-> "none"]
    /\ stuck = [r \in Recordings |-> {}]

Go(r, to) == pc' = [pc EXCEPT ![r] = to]

(***************************************************************************)
(* The recording                                                           *)
(***************************************************************************)
(* A process starts anew, and is patched, or its plugin is disabled or its *)
(* shim fails, which leaves the stock way.                                 *)
Restart(via) ==
    /\ patched' = patched \union {via} \/ patched' = patched \ {via}
    /\ UNCHANGED <<dual, answer, pc, out, feed, scratch, exit, stuck>>

(* MixMonitor is asked for, through wazo-amid or AGI.  When the request    *)
(* fails Asterisk may have taken it all the same.                          *)
Start(r) ==
    /\ pc[r] = "idle" /\ answer[r] = "none"
    /\ \E begun \in BOOLEAN, told \in {"started", "error"}, via \in Starters :
        /\ begun \/ told = "error"
        /\ answer' = [answer EXCEPT ![r] = told]
        /\ dual' = [dual EXCEPT ![r] = via \in patched]
        /\ pc' = [pc EXCEPT ![r] = IF begun THEN "recording" ELSE @]
        /\ out' = [out EXCEPT ![r] = IF begun THEN "growing" ELSE @]
    /\ UNCHANGED <<patched, feed, scratch, exit, stuck>>

(* The recording stops: Asterisk closes its files, of which a feed may be  *)
(* missing or hold nothing, and runs the merge, if it lives to do so.      *)
Stop(r) ==
    /\ pc[r] = "recording" /\ dual[r]
    /\ out' = [out EXCEPT ![r] = "mono"]
    /\ \E left \in [Feeds -> {"none", "empty", "audio"}] : feed' = [feed EXCEPT ![r] = left]
    /\ Go(r, "checking") \/ Go(r, "killed")
    /\ UNCHANGED <<scratch, asked, exit, stuck>>

StopPlain(r) ==
    /\ pc[r] = "recording" /\ ~dual[r]
    /\ out' = [out EXCEPT ![r] = "mono"]
    /\ Go(r, "plain")
    /\ UNCHANGED <<feed, scratch, asked, exit, stuck>>

(* A user or a retention job deletes the recording.                        *)
DeleteRecording(r) ==
    /\ out[r] \in {"mono", "stereo"}
    /\ out' = [out EXCEPT ![r] = "deleted"]
    /\ UNCHANGED <<pc, feed, scratch, asked, exit, stuck>>

(***************************************************************************)
(* merge()                                                                 *)
(***************************************************************************)
Ready(r) == \A f \in Feeds : feed[r][f] = "audio"

(* The outcome is decided, and the finally clause follows.                 *)
LeaveAtOnce(r, how) ==      \* mutated: what is not caught skips the finally clause
    /\ Go(r, IF how = "raised" THEN "exited" ELSE "rmScratch")
    /\ exit' = [exit EXCEPT ![r] = how]

Leave(r, how) ==
    /\ Go(r, "rmScratch")
    /\ exit' = [exit EXCEPT ![r] = how]

CheckOneFeed(r) ==      \* mutated: forgets to look at the second feed
    /\ pc[r] = "checking"
    /\ IF feed[r]["rx"] = "audio" THEN Go(r, "sox") /\ UNCHANGED exit
                                  ELSE Leave(r, "failed")
    /\ UNCHANGED <<out, feed, scratch, asked, stuck>>

Check(r) ==
    /\ pc[r] = "checking"
    /\ IF Ready(r) THEN Go(r, "sox") /\ UNCHANGED exit
                   ELSE Leave(r, "failed")
    /\ UNCHANGED <<out, feed, scratch, asked, stuck>>

(* sox writes its output piece by piece.                                   *)
SoxWritesInPlace(r) ==      \* mutated: straight to out.wav
    /\ pc[r] = "sox"
    /\ scratch[r] = "none"
    /\ scratch' = [scratch EXCEPT ![r] = "half"]
    /\ out' = [out EXCEPT ![r] = "half"]
    /\ UNCHANGED <<pc, feed, asked, exit, stuck>>

SoxWrites(r) ==
    /\ pc[r] = "sox"
    /\ scratch[r] = "none"
    /\ scratch' = [scratch EXCEPT ![r] = "half"]
    /\ UNCHANGED <<pc, out, feed, asked, exit, stuck>>

SoxSucceeds(r) ==
    /\ pc[r] = "sox"
    /\ scratch[r] = "half"
    /\ scratch' = [scratch EXCEPT ![r] = "whole"]
    /\ Go(r, "replacing")
    /\ UNCHANGED <<out, feed, asked, exit, stuck>>

SoxFailsUnseen(r) ==      \* mutated: run() without check=True
    /\ pc[r] = "sox"
    /\ Go(r, "replacing")
    /\ UNCHANGED <<out, feed, scratch, asked, exit, stuck>>

(* It exits with an error or is not there; any other OSError of            *)
(* subprocess.run is not caught.                                           *)
SoxFails(r) ==
    /\ pc[r] = "sox"
    /\ Leave(r, "failed") \/ (scratch[r] = "none" /\ Leave(r, "raised"))
    /\ UNCHANGED <<out, feed, scratch, asked, stuck>>

SoxHangs(r) ==
    /\ pc[r] = "sox"
    /\ Go(r, "hung")
    /\ UNCHANGED <<out, feed, scratch, asked, exit, stuck>>

NoTimeOut(r) ==      \* mutated: run() without a timeout
    /\ pc[r] = "hung"
    /\ UNCHANGED vars

TimeOut(r) ==
    /\ pc[r] = "hung"
    /\ Leave(r, "failed")
    /\ UNCHANGED <<out, feed, scratch, asked, stuck>>

(* os.replace: the name out.wav passes to the scratch file in one step,    *)
(* whatever that holds, and whether or not the old one is still there.     *)
Replace(r) ==
    /\ pc[r] = "replacing" /\ scratch[r] # "none"
    /\ out' = [out EXCEPT ![r] = IF scratch[r] = "whole" THEN "stereo" ELSE "half"]
    /\ scratch' = [scratch EXCEPT ![r] = "none"]
    /\ Leave(r, "ok")
    /\ UNCHANGED <<feed, asked, stuck>>

ReplaceFailsUnseen(r) ==      \* mutated: the error is logged and forgotten
    /\ pc[r] = "replacing"
    /\ Leave(r, "ok")
    /\ UNCHANGED <<out, feed, scratch, asked, stuck>>

ReplaceFails(r) ==
    /\ pc[r] = "replacing"
    /\ Leave(r, "failed")
    /\ UNCHANGED <<out, feed, scratch, asked, stuck>>

(* The finally clause: _safe_remove, one file after the other, each of     *)
(* which may be absent or refuse.                                          *)
RemoveScratch(r) ==
    /\ pc[r] = "rmScratch"
    /\ Go(r, "rmRx")
    /\ \/ scratch' = [scratch EXCEPT ![r] = "none"] /\ UNCHANGED stuck
       \/ /\ scratch[r] # "none"
          /\ stuck' = [stuck EXCEPT ![r] = @ \union {"scratch"}]
          /\ UNCHANGED scratch
    /\ UNCHANGED <<out, feed, asked, exit>>

RemoveFeed(r, f, at, to) ==
    /\ pc[r] = at
    /\ Go(r, to)
    /\ \/ feed' = [feed EXCEPT ![r][f] = "none"] /\ UNCHANGED stuck
       \/ /\ feed[r][f] # "none"
          /\ stuck' = [stuck EXCEPT ![r] = @ \union {f}]
          /\ UNCHANGED feed
    /\ UNCHANGED <<out, scratch, asked, exit>>

RemoveRx(r) == RemoveFeed(r, "rx", "rmRx", "rmTx")
RemoveTx(r) == RemoveFeed(r, "tx", "rmTx", "exited")

(* The process is killed.  What it has written the system still holds: a   *)
(* loss of power, which may lose that too, is not this step.               *)
Killed(r) ==
    /\ pc[r] \in Merging
    /\ Go(r, "killed")
    /\ UNCHANGED <<out, feed, scratch, asked, exit, stuck>>

Merge(r) ==
    \/ Check(r)
    \/ SoxWrites(r) \/ SoxSucceeds(r) \/ SoxFails(r) \/ TimeOut(r)
    \/ Replace(r) \/ ReplaceFails(r)
    \/ RemoveScratch(r) \/ RemoveRx(r) \/ RemoveTx(r)

Next ==
    \/ \E via \in Starters : Restart(via)
    \/ \E r \in Recordings :
        \/ Start(r) \/ Stop(r) \/ StopPlain(r) \/ DeleteRecording(r)
        \/ Merge(r) \/ SoxHangs(r) \/ Killed(r)

Spec == Init /\ [][Next]_vars /\ \A r \in Recordings : WF_vars(Merge(r))

(***************************************************************************)
(* Properties                                                              *)
(***************************************************************************)
(* stereo_merge.py:14-16: a recording is never destroyed.  From the moment *)
(* it stops, out.wav is the whole mono mix or a whole 2-channel file, at   *)
(* every step the merge may be killed at, unless somebody deleted it.      *)
RecordingIsWhole ==
    \A r \in Recordings : pc[r] \notin {"idle", "recording"} =>
        out[r] \in {"mono", "stereo", "deleted"}

(* What merge() returns, and main() exits with, is what became of out.wav: *)
(* after a success it is the 2-channel file, after a failure or an error   *)
(* the mono mix is as Asterisk left it, as it is of a recording that was   *)
(* started the stock way, whatever was patched since                       *)
(* (stereo_merge.py:64-65, 149-155, plugin.py:36-45).                      *)
ExitTellsOutcome ==
    \A r \in Recordings :
        /\ exit[r] = "ok" => out[r] \in {"stereo", "deleted"}
        /\ exit[r] \in {"failed", "raised"} \/ pc[r] = "plain" => out[r] \in {"mono", "deleted"}

(* A 2-channel file is made from two feeds with audio only: a step that    *)
(* puts it in place happens while both feeds are still there.              *)
StereoFromBothFeeds ==
    [][\A r \in Recordings :
          out'[r] # out[r] /\ out'[r] = "stereo" => Ready(r)]_vars

(* stereo_merge.py:16-18: however merge() ends, once it has ended no feed  *)
(* and no scratch file is left, but for what could not be removed.         *)
NothingLingers ==
    \A r \in Recordings : pc[r] = "exited" =>
        /\ scratch[r] # "none" => "scratch" \in stuck[r]
        /\ \A f \in Feeds : feed[r][f] # "none" => f \in stuck[r]

(* A merge that is not killed ends, whatever sox does within its timeout   *)
(* (stereo_merge.py:36, 95-101).                                           *)
MergeEnds ==
    \A r \in Recordings : (pc[r] \in Merging) ~> (pc[r] \in {"exited", "killed"})

=============================================================================
