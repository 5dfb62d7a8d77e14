---------------------------- MODULE StereoProofs -----------------------------
(***************************************************************************)
(* What is proved of StereoMerge for any set of recordings.                *)
(***************************************************************************)
EXTENDS StereoMerge, TLAPS

(* What closes the induction, beside the types: which outcome is decided   *)
(* at which step, what out.wav is by then, and which files the finally     *)
(* clause has already dealt with.                                          *)
Gone(r, f) == feed[r][f] # "none" => f \in stuck[r]
ScratchGone(r) == scratch[r] # "none" => "scratch" \in stuck[r]

MergeInv ==
    /\ TypeOK
    /\ \A r \in Recordings :
        /\ pc[r] \in {"checking", "sox", "hung", "replacing"} =>
              exit[r] = "none" /\ out[r] \in {"mono", "deleted"}
        /\ pc[r] \in {"idle", "recording", "plain"} => exit[r] = "none"
        /\ pc[r] \in {"sox", "hung", "replacing"} => Ready(r)
        /\ pc[r] \in {"rmScratch", "rmRx", "rmTx"} => exit[r] # "none"
        /\ pc[r] \in {"rmRx", "rmTx", "exited"} => ScratchGone(r)
        /\ pc[r] \in {"rmTx", "exited"} => Gone(r, "rx")
        /\ pc[r] = "exited" => Gone(r, "tx")
    /\ RecordingIsWhole
    /\ ExitTellsOutcome

LEMMA MergeInit == Init => MergeInv
  BY DEF Init, MergeInv, TypeOK, Feeds, Starters, asked, Merging, Ready, Gone, ScratchGone,
         RecordingIsWhole, ExitTellsOutcome

(* Removing a feed leaves it gone and brings no other file back.           *)
FeedsShrink ==
    \A q \in Recordings :
        /\ stuck[q] \subseteq stuck'[q]
        /\ \A f \in Feeds : feed'[q][f] \in {"none", feed[q][f]}
        /\ pc'[q] \in {"sox", "hung", "replacing"} => feed'[q] = feed[q]

LEMMA RemoveFeedLemma ==
  ASSUME MergeInv, NEW r \in Recordings, NEW f \in Feeds,
         NEW to \in {"rmTx", "exited"}, NEW at \in {"rmRx", "rmTx"},
         RemoveFeed(r, f, at, to)
  PROVE  TypeOK' /\ Gone(r, f)' /\ FeedsShrink
<1> USE DEF MergeInv, TypeOK, asked, RemoveFeed, Go
<1>1. pc' = [pc EXCEPT ![r] = to] /\ pc[r] = at /\ UNCHANGED <<out, scratch, asked, exit>>
  OBVIOUS
<1>2. CASE feed' = [feed EXCEPT ![r][f] = "none"] /\ UNCHANGED stuck
  <2>1. feed' \in [Recordings -> [Feeds -> {"none", "empty", "audio"}]]
    BY <1>2
  <2>2. feed'[r][f] = "none"
    BY <1>2
  <2>3. \A q \in Recordings : q # r => feed'[q] = feed[q]
    BY <1>2
  <2>4. \A g \in Feeds : feed'[r][g] \in {"none", feed[r][g]}
    BY <1>2
  <2>5. TypeOK'
    BY <1>1, <1>2, <2>1 DEF Merging
  <2>6. QED
    BY <1>1, <1>2, <2>2, <2>3, <2>4, <2>5 DEF Gone, FeedsShrink
<1>3. CASE stuck' = [stuck EXCEPT ![r] = @ \union {f}] /\ UNCHANGED feed
  <2>1. stuck' \in [Recordings -> SUBSET (Feeds \union {"scratch"})]
    BY <1>3
  <2>2. TypeOK'
    BY <1>1, <1>3, <2>1 DEF Merging
  <2>3. QED
    BY <1>1, <1>3, <2>2 DEF Gone, FeedsShrink
<1>4. QED
  BY <1>2, <1>3

(* A failure may be decided at any step before the file is in place.       *)
LEMMA LeaveLemma ==
  ASSUME MergeInv, NEW r \in Recordings, NEW how \in {"failed", "raised"},
         pc[r] \in {"checking", "sox", "hung", "replacing"},
         Leave(r, how),
         UNCHANGED <<out, feed, scratch, asked, stuck>>
  PROVE  MergeInv'
  BY DEF MergeInv, TypeOK, Feeds, Starters, asked, Merging, Ready, Gone, ScratchGone,
         RecordingIsWhole, ExitTellsOutcome, Go, Leave

LEMMA MergeStep == MergeInv /\ [Next]_vars => MergeInv'
<1> SUFFICES ASSUME MergeInv, [Next]_vars PROVE MergeInv'
  OBVIOUS
<1> USE DEF MergeInv, TypeOK, Feeds, Starters, asked, Merging, Ready, Gone, ScratchGone,
         RecordingIsWhole, ExitTellsOutcome, Go, Leave
<1>1. ASSUME NEW r \in Recordings, Start(r) PROVE MergeInv'
  BY <1>1 DEF Start
<1>2. ASSUME NEW r \in Recordings, Stop(r) \/ StopPlain(r) PROVE MergeInv'
  <2>1. CASE Stop(r)
    <3>1. feed' \in [Recordings -> [Feeds -> {"none", "empty", "audio"}]]
      BY <2>1 DEF Stop
    <3>2. /\ pc[r] = "recording" /\ dual[r]
          /\ pc' = [pc EXCEPT ![r] = "checking"] \/ pc' = [pc EXCEPT ![r] = "killed"]
          /\ out' = [out EXCEPT ![r] = "mono"]
          /\ \A q \in Recordings : q # r => feed'[q] = feed[q]
          /\ UNCHANGED <<scratch, patched, dual, answer, exit, stuck>>
      BY <2>1 DEF Stop
    <3>3. TypeOK'
      <4>1. CASE pc' = [pc EXCEPT ![r] = "checking"]
        BY <3>1, <3>2, <4>1
      <4>2. CASE pc' = [pc EXCEPT ![r] = "killed"]
        BY <3>1, <3>2, <4>2
      <4> QED
        BY <3>2, <4>1, <4>2
    <3> QED
      BY <3>2, <3>3
  <2>2. CASE StopPlain(r)
    BY <2>2 DEF StopPlain
  <2> QED
    BY <1>2, <2>1, <2>2
<1>3. ASSUME NEW r \in Recordings, DeleteRecording(r) PROVE MergeInv'
  BY <1>3 DEF DeleteRecording
<1>4. ASSUME NEW r \in Recordings, Check(r) PROVE MergeInv'
  <2>1. CASE Ready(r)
    <3>1. /\ pc' = [pc EXCEPT ![r] = "sox"] /\ pc[r] = "checking"
          /\ UNCHANGED <<out, feed, scratch, asked, exit, stuck>>
      BY <1>4, <2>1 DEF Check
    <3>2. QED
      BY <2>1, <3>1
  <2>2. CASE ~Ready(r)
    <3>1. Leave(r, "failed") /\ pc[r] = "checking"
          /\ UNCHANGED <<out, feed, scratch, asked, stuck>>
      BY <1>4, <2>2 DEF Check
    <3>2. QED
      BY <3>1, LeaveLemma
  <2>3. QED
    BY <2>1, <2>2
<1>5. ASSUME NEW r \in Recordings, SoxWrites(r) PROVE MergeInv'
  BY <1>5 DEF SoxWrites
<1>6. ASSUME NEW r \in Recordings, SoxSucceeds(r) PROVE MergeInv'
  BY <1>6 DEF SoxSucceeds
<1>7. ASSUME NEW r \in Recordings, SoxFails(r) PROVE MergeInv'
  <2>1. /\ Leave(r, "failed") \/ Leave(r, "raised")
        /\ pc[r] = "sox"
        /\ UNCHANGED <<out, feed, scratch, asked, stuck>>
    BY <1>7 DEF SoxFails
  <2>2. QED
    BY <2>1, LeaveLemma
<1>8. ASSUME NEW r \in Recordings, SoxHangs(r) PROVE MergeInv'
  BY <1>8 DEF SoxHangs
<1>9. ASSUME NEW r \in Recordings, TimeOut(r) PROVE MergeInv'
  BY <1>9, LeaveLemma DEF TimeOut
<1>10. ASSUME NEW r \in Recordings, Replace(r) PROVE MergeInv'
  BY <1>10 DEF Replace
<1>11. ASSUME NEW r \in Recordings, ReplaceFails(r) PROVE MergeInv'
  BY <1>11, LeaveLemma DEF ReplaceFails
<1>12. ASSUME NEW r \in Recordings, RemoveScratch(r) PROVE MergeInv'
  <2>1. TypeOK'
    <3>1. stuck' \in [Recordings -> SUBSET (Feeds \union {"scratch"})]
      BY <1>12 DEF RemoveScratch
    <3>2. scratch' \in [Recordings -> {"none", "half", "whole"}]
      BY <1>12 DEF RemoveScratch
    <3>3. /\ pc' = [pc EXCEPT ![r] = "rmRx"] /\ pc[r] = "rmScratch"
          /\ \A q \in Recordings : q # r => scratch'[q] = scratch[q]
          /\ UNCHANGED <<out, feed, asked, exit>>
      BY <1>12 DEF RemoveScratch
    <3>4. QED
      BY <3>1, <3>2, <3>3
  <2>2. scratch'[r] = "none" \/ "scratch" \in stuck'[r]
    BY <1>12 DEF RemoveScratch
  <2>3. \A q \in Recordings : stuck[q] \subseteq stuck'[q]
    BY <1>12 DEF RemoveScratch
  <2>4. /\ pc' = [pc EXCEPT ![r] = "rmRx"]
        /\ \A q \in Recordings : q # r => scratch'[q] = scratch[q]
        /\ UNCHANGED <<out, feed, exit>>
    BY <1>12 DEF RemoveScratch
  <2>5. pc[r] = "rmScratch"
    BY <1>12 DEF RemoveScratch
  <2>6. ASSUME NEW q \in Recordings
        PROVE  /\ pc'[q] \in {"rmScratch", "rmRx", "rmTx"} => exit'[q] # "none"
               /\ pc'[q] \in {"rmRx", "rmTx", "exited"} => ScratchGone(q)'
               /\ pc'[q] \in {"rmTx", "exited"} => Gone(q, "rx")'
               /\ pc'[q] = "exited" => Gone(q, "tx")'
    BY <2>2, <2>3, <2>4, <2>5, <2>6
  <2>7. QED
    BY <2>1, <2>4, <2>5, <2>6
<1>13. ASSUME NEW r \in Recordings, RemoveRx(r) PROVE MergeInv'
  <2>1. RemoveFeed(r, "rx", "rmRx", "rmTx")
    BY <1>13 DEF RemoveRx
  <2>2. TypeOK' /\ Gone(r, "rx")' /\ FeedsShrink
    BY <2>1, RemoveFeedLemma
  <2>3. pc' = [pc EXCEPT ![r] = "rmTx"] /\ pc[r] = "rmRx" /\ UNCHANGED <<out, scratch, exit>>
    BY <2>1 DEF RemoveFeed
  <2>4. QED
    BY <2>2, <2>3 DEF FeedsShrink
<1>14. ASSUME NEW r \in Recordings, RemoveTx(r) PROVE MergeInv'
  <2>1. RemoveFeed(r, "tx", "rmTx", "exited")
    BY <1>14 DEF RemoveTx
  <2>2. TypeOK' /\ Gone(r, "tx")' /\ FeedsShrink
    BY <2>1, RemoveFeedLemma
  <2>3. pc' = [pc EXCEPT ![r] = "exited"] /\ pc[r] = "rmTx" /\ UNCHANGED <<out, scratch, exit>>
    BY <2>1 DEF RemoveFeed
  <2>4. QED
    BY <2>2, <2>3 DEF FeedsShrink
<1>15. ASSUME NEW r \in Recordings, Killed(r) PROVE MergeInv'
  BY <1>15 DEF Killed
<1>16. CASE UNCHANGED vars
  BY <1>16 DEF vars
<1>17. ASSUME NEW via \in Starters, Restart(via) PROVE MergeInv'
  <2>1. patched' \subseteq Starters /\ UNCHANGED <<dual, answer, pc, out, feed, scratch, exit, stuck>>
    BY <1>17 DEF Restart
  <2> QED
    BY <2>1
<1>18. QED
  BY <1>1, <1>2, <1>3, <1>4, <1>5, <1>6, <1>7, <1>8, <1>9, <1>10, <1>11, <1>12,
     <1>13, <1>14, <1>15, <1>16, <1>17 DEF Next, Merge

LEMMA MergeInvariant == Spec => []MergeInv
  BY MergeInit, MergeStep, PTL DEF Spec

(* The types of the model's state, for any number of recordings.           *)
THEOREM FilesWellTyped == Spec => []TypeOK
<1>1. MergeInv => TypeOK
  BY DEF MergeInv
<1>2. QED
  BY <1>1, MergeInvariant, PTL

(* A recording is never destroyed, wherever the merge fails or is killed   *)
(* (stereo_merge.py:14-16).                                                *)
THEOREM NeverDestroyed == Spec => []RecordingIsWhole
<1>1. MergeInv => RecordingIsWhole
  BY DEF MergeInv
<1>2. QED
  BY <1>1, MergeInvariant, PTL

(* The exit status tells what became of out.wav (stereo_merge.py:64-65).   *)
THEOREM StatusIsTrue == Spec => []ExitTellsOutcome
<1>1. MergeInv => ExitTellsOutcome
  BY DEF MergeInv
<1>2. QED
  BY <1>1, MergeInvariant, PTL

(* A merge that ended has left nothing it could remove                     *)
(* (stereo_merge.py:125-129).                                              *)
THEOREM CleansUp == Spec => []NothingLingers
<1>1. MergeInv => NothingLingers
  BY DEF MergeInv, NothingLingers, Gone, ScratchGone, Feeds
<1>2. QED
  BY <1>1, MergeInvariant, PTL

(* The 2-channel file comes from two feeds with content                    *)
(* (stereo_merge.py:69-76).                                                *)
THEOREM BothFeedsHeard == Spec => StereoFromBothFeeds
<1>1. MergeInv /\ [Next]_vars =>
        [\A r \in Recordings :
            out'[r] # out[r] /\ out'[r] = "stereo" => Ready(r)]_vars
  <2> SUFFICES ASSUME MergeInv, Next, NEW r \in Recordings,
                      out'[r] # out[r], out'[r] = "stereo"
               PROVE  Ready(r)
    OBVIOUS
  <2>1. PICK q \in Recordings : Replace(q) \/ out' = out \/ Start(q) \/ Stop(q) \/ StopPlain(q)
                                \/ DeleteRecording(q)
    BY DEF Next, Merge, Check, SoxWrites, SoxSucceeds, SoxFails, SoxHangs, TimeOut,
           ReplaceFails, RemoveScratch, RemoveRx, RemoveTx, RemoveFeed, Killed, Restart
  <2>2. Replace(q) /\ q = r
    BY <2>1 DEF Replace, Start, Stop, StopPlain, DeleteRecording, MergeInv, TypeOK
  <2>3. QED
    BY <2>2 DEF Replace, MergeInv
<1>2. QED
  BY <1>1, MergeInvariant, PTL DEF Spec, StereoFromBothFeeds

=============================================================================
