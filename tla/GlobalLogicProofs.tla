--------------------------- MODULE GlobalLogicProofs ---------------------------
(***************************************************************************)
(* For any number of channels and any of the bounds, with pauses, reloads    *)
(* and a shutdown at any moment: a global-logic thread never goes to sleep    *)
(* on an update it has not seen.                                              *)
(***************************************************************************)
EXTENDS GlobalLogic, TLAPS

LEMMA InitSignal == Init => SignalInv
  <1> SUFFICES ASSUME Init PROVE SignalInv
    OBVIOUS
  <1>1. TypeOK
    <2>1. /\ publication_seq \in [Channels -> 0..MaxPublications]
          /\ last_publication_seq \in [Channels -> 0..MaxPublications]
          /\ publisher \in [Channels -> {"idle", "notify"}]
      BY GlobalLogicAssumption DEF Init
    <2>2. /\ g_paused \in BOOLEAN /\ g_force_resume \in BOOLEAN /\ isRunning \in BOOLEAN
          /\ running \in BOOLEAN /\ stop_requested \in BOOLEAN /\ drawn \in BOOLEAN
      BY DEF Init
    <2>3. /\ sequence \in Nat
          /\ observed_publication \in Nat
          /\ action_queue \in 0..actions_sent
          /\ actions_sent \in 0..MaxActions
          /\ toggles \in 0..MaxToggles
          /\ reloads \in 0..MaxReloads
      BY GlobalLogicAssumption DEF Init
    <2>4. /\ control = "idle" /\ tick = "head" /\ unread = {}
          /\ at = [main |-> "run", monitor |-> "poll"]
      BY DEF Init
    <2> QED
      BY <2>1, <2>2, <2>3, <2>4 DEF TypeOK, At, MainStep, MonitorStep
  <1> QED
    BY <1>1 DEF Init, SignalInv

LEMMA TypeStep == TypeOK /\ [Next]_vars => TypeOK'
  <1> SUFFICES ASSUME TypeOK, [Next]_vars PROVE TypeOK'
    OBVIOUS
  <1> USE GlobalLogicAssumption
  <1>1. CASE CheckPause
    BY <1>1 DEF CheckPause, TypeOK, pause_vars, signal_vars, stop_vars
  <1>2. CASE TestPause
    BY <1>2 DEF TestPause, TypeOK, pause_vars, signal_vars, stop_vars
  <1>3. CASE BlockPause
    BY <1>3 DEF BlockPause, TypeOK, pause_vars, signal_vars, stop_vars
  <1>4. CASE SpuriousWakeup
    BY <1>4 DEF SpuriousWakeup, TypeOK, pause_vars, signal_vars, stop_vars
  <1>5. CASE CheckRunning
    BY <1>5 DEF CheckRunning, TypeOK, pause_vars, signal_vars, stop_vars
  <1>6. CASE Observe
    BY <1>6 DEF Observe, TypeOK, pause_vars, signal_vars, stop_vars
  <1>7. ASSUME NEW c \in Channels, Snapshot(c) PROVE TypeOK'
    BY <1>7 DEF Snapshot, TypeOK, pause_vars, signal_vars, stop_vars
  <1>8. CASE RunLogic
    BY <1>8 DEF RunLogic, TypeOK, pause_vars, stop_vars
  <1>9. CASE EndTick
    BY <1>9 DEF EndTick, TypeOK, pause_vars, signal_vars, stop_vars
  <1>10. CASE WaitPublication
    BY <1>10 DEF WaitPublication, TypeOK, pause_vars, signal_vars, stop_vars
  <1>11. CASE WaitTimeout
    BY <1>11 DEF WaitTimeout, TypeOK, pause_vars, signal_vars, stop_vars
  <1>12. ASSUME NEW c \in Channels, Commit(c) PROVE TypeOK'
    BY <1>12 DEF Commit, TypeOK, pause_vars, thread_vars, stop_vars
  <1>13. ASSUME NEW c \in Channels, CommitNotify(c) PROVE TypeOK'
    BY <1>13 DEF CommitNotify, NotifyPublication, TypeOK, pause_vars, stop_vars
  <1>14. CASE EnqueueAction
    BY <1>14 DEF EnqueueAction, TypeOK, pause_vars, thread_vars, stop_vars
  <1>15. CASE ActionNotify
    BY <1>15 DEF ActionNotify, NotifyPublication, TypeOK, pause_vars, stop_vars
  <1>16. CASE Toggle
    <2>1. at' \in At
      BY <1>16 DEF Toggle, TypeOK, At, MainStep
    <2> QED
      BY <1>16, <2>1 DEF Toggle, TypeOK, signal_vars, thread_vars
  <1>17. CASE ToggleNotify
    <2>1. at' \in At
      BY <1>17 DEF ToggleNotify, TypeOK, At, MainStep
    <2> QED
      BY <1>17, <2>1 DEF ToggleNotify, TypeOK, NotifyPause, pause_vars, signal_vars
  <1>18. CASE RequestStop
    <2>1. at' \in At
      BY <1>18 DEF RequestStop, TypeOK, At, MainStep
    <2> QED
      BY <1>18, <2>1 DEF RequestStop, TypeOK, pause_vars, signal_vars, thread_vars
  <1>19. CASE ForceResume
    <2>1. at' \in At
      BY <1>19 DEF ForceResume, TypeOK, At, MainStep
    <2> QED
      BY <1>19, <2>1 DEF ForceResume, TypeOK, signal_vars, thread_vars
  <1>20. CASE Unpause
    <2>1. at' \in At
      BY <1>20 DEF Unpause, TypeOK, At, MainStep
    <2> QED
      BY <1>20, <2>1 DEF Unpause, TypeOK, signal_vars, thread_vars
  <1>21. CASE ResumeNotify
    <2>1. at' \in At
      BY <1>21 DEF ResumeNotify, TypeOK, At, MainStep
    <2> QED
      BY <1>21, <2>1 DEF ResumeNotify, TypeOK, NotifyPause, pause_vars, signal_vars
  <1>22. CASE JoinMonitor
    <2>1. at' \in At
      BY <1>22 DEF JoinMonitor, TypeOK, At, MainStep, StopStep
    <2> QED
      BY <1>22, <2>1 DEF JoinMonitor, TypeOK, pause_vars, signal_vars, thread_vars
  <1>23. ASSUME NEW s \in {"main", "monitor"}, StopFlags(s) PROVE TypeOK'
    <2>1. at' \in At
      BY <1>23 DEF StopFlags, TypeOK, At, MainStep, MonitorStep, StopStep
    <2> QED
      BY <1>23, <2>1 DEF StopFlags, TypeOK, pause_vars, signal_vars
  <1>24. ASSUME NEW s \in {"main", "monitor"}, StopPublication(s) PROVE TypeOK'
    <2>1. at' \in At
      BY <1>24 DEF StopPublication, TypeOK, At, MainStep, MonitorStep, StopStep
    <2> QED
      BY <1>24, <2>1 DEF StopPublication, TypeOK, NotifyPublication, pause_vars
  <1>25. ASSUME NEW s \in {"main", "monitor"}, StopPause(s) PROVE TypeOK'
    <2>1. at' \in At
      BY <1>25 DEF StopPause, TypeOK, At, MainStep, MonitorStep, StopStep
    <2> QED
      BY <1>25, <2>1 DEF StopPause, TypeOK, NotifyPause, pause_vars, signal_vars
  <1>26. ASSUME NEW s \in {"main", "monitor"}, Join(s) PROVE TypeOK'
    <2>1. at' \in At
      BY <1>26 DEF Join, TypeOK, At, MainStep, MonitorStep, StopStep
    <2> QED
      BY <1>26, <2>1 DEF Join, TypeOK, pause_vars, signal_vars
  <1>27. CASE Reload
    <2>1. at' \in At
      BY <1>27 DEF Reload, TypeOK, At, MonitorStep, StopStep
    <2> QED
      BY <1>27, <2>1 DEF Reload, TypeOK, pause_vars, signal_vars, thread_vars
  <1>28. CASE StartOne
    <2>1. at' \in At
      BY <1>28 DEF StartOne, TypeOK, At, MonitorStep
    <2>2. last_publication_seq' \in [Channels -> 0..MaxPublications]
      BY <1>28 DEF StartOne, TypeOK
    <2>3. running' \in BOOLEAN /\ stop_requested' \in BOOLEAN
      BY <1>28 DEF StartOne, TypeOK
    <2>4. tick' = "head" \/ tick' = tick
      BY <1>28 DEF StartOne
    <2>5. UNCHANGED <<pause_vars, signal_vars, observed_publication, unread, drawn, isRunning,
                      toggles, reloads>>
      BY <1>28 DEF StartOne
    <2> QED
      BY <2>1, <2>2, <2>3, <2>4, <2>5 DEF TypeOK, pause_vars, signal_vars
  <1>29. CASE MonitorExit
    <2>1. at' \in At
      BY <1>29 DEF MonitorExit, TypeOK, At, MonitorStep
    <2> QED
      BY <1>29, <2>1 DEF MonitorExit, TypeOK, pause_vars, signal_vars, thread_vars
  <1>30. CASE UNCHANGED vars
    BY <1>30 DEF vars, TypeOK, pause_vars, signal_vars, thread_vars, stop_vars
  <1> QED
    BY <1>1, <1>2, <1>3, <1>4, <1>5, <1>6, <1>7, <1>8, <1>9, <1>10, <1>11, <1>12, <1>13,
       <1>14, <1>15, <1>16, <1>17, <1>18, <1>19, <1>20, <1>21, <1>22, <1>23, <1>24, <1>25,
       <1>26, <1>27, <1>28, <1>29, <1>30
    DEF Next, Thread, Notify, Main, Monitor, StopOne, Exited

(* The steps that change what the thread has seen, what there is to see or    *)
(* the sequence number; every other one falls under <1>k.                      *)
LEMMA SignalStep == SignalInv /\ [Next]_vars => SignalInv'
  <1> SUFFICES ASSUME SignalInv, [Next]_vars PROVE SignalInv'
    OBVIOUS
  <1>t. TypeOK /\ TypeOK'
    BY TypeStep DEF SignalInv
  <1>n. /\ sequence \in Nat /\ observed_publication \in Nat
        /\ observed_publication <= sequence
    BY <1>t DEF TypeOK, SignalInv
  <1> DEFINE known == <<sequence, publication_seq, publisher, action_queue, control,
                        observed_publication, last_publication_seq, unread>>
  <1>k. ASSUME UNCHANGED known,
               \/ tick' = tick
               \/ tick' \notin {"snapshot", "end", "wait", "asleep"}
               \/ tick = "end" /\ tick' = "wait"
               \/ tick = "wait" /\ tick' = "asleep" /\ observed_publication = sequence
        PROVE  SignalInv'
    <2>1. \A c \in Channels : Seen(c) => Seen(c)'
      BY <1>k DEF Seen
    <2> QED
      BY <1>k, <1>t, <2>1 DEF SignalInv
  <1>p. ASSUME NotifyPublication,
               UNCHANGED <<publication_seq, action_queue, observed_publication,
                           last_publication_seq, unread>>
        PROVE  SignalInv'
    <2>1. sequence' = sequence + 1 /\ tick' # "asleep" /\ (tick' = tick \/ tick' = "head")
      BY <1>p DEF NotifyPublication
    <2>2. observed_publication' < sequence'
      BY <2>1, <1>p, <1>n
    <2>3. \A c \in Channels : Seen(c)'
      BY <2>2 DEF Seen
    <2> QED
      BY <2>1, <2>2, <2>3, <1>t, <1>p, <1>n DEF SignalInv
  <1>1. CASE Observe
    <2>1. tick' = "snapshot" /\ unread' = Channels /\ observed_publication' = sequence
      BY <1>1 DEF Observe
    <2>2. sequence' = sequence
      BY <1>1 DEF Observe, signal_vars
    <2> QED
      BY <2>1, <2>2, <1>t, <1>n DEF SignalInv
  <1>2. ASSUME NEW c \in Channels, Snapshot(c) PROVE SignalInv'
    <2>1. /\ tick = "snapshot" /\ tick' = "snapshot"
          /\ UNCHANGED <<sequence, publication_seq, publisher, observed_publication>>
          /\ unread' = unread \ {c}
          /\ last_publication_seq' = [last_publication_seq EXCEPT ![c] = publication_seq[c]]
      BY <1>2 DEF Snapshot, signal_vars
    <2>2. Seen(c)'
      BY <2>1, <1>t DEF Seen, TypeOK
    <2>3. \A d \in Channels \ {c} : Seen(d) => Seen(d)'
      BY <2>1, <1>t DEF Seen, TypeOK
    <2> QED
      BY <2>1, <2>2, <2>3, <1>t, <1>n DEF SignalInv
  <1>3. CASE RunLogic
    <2>1. /\ tick = "snapshot" /\ tick' = "end" /\ unread = {} /\ action_queue' = 0
          /\ UNCHANGED <<sequence, publication_seq, publisher, observed_publication,
                         last_publication_seq, unread>>
      BY <1>3 DEF RunLogic
    <2>2. \A c \in Channels : Seen(c) => Seen(c)'
      BY <2>1 DEF Seen
    <2> QED
      BY <2>1, <2>2, <1>t, <1>n DEF SignalInv
  <1>4. ASSUME NEW c \in Channels, Commit(c) PROVE SignalInv'
    <2>1. /\ UNCHANGED <<sequence, action_queue, control, tick, observed_publication,
                         last_publication_seq, unread>>
          /\ publisher' = [publisher EXCEPT ![c] = "notify"]
          /\ publication_seq' = [publication_seq EXCEPT ![c] = publication_seq[c] + 1]
      BY <1>4 DEF Commit, thread_vars
    <2>2. \A d \in Channels : Seen(d) => Seen(d)'
      BY <2>1, <1>t DEF Seen, TypeOK
    <2> QED
      BY <2>1, <2>2, <1>t, <1>n DEF SignalInv
  <1>5. ASSUME NEW c \in Channels, CommitNotify(c) PROVE SignalInv'
    BY <1>5, <1>p DEF CommitNotify
  <1>6. CASE EnqueueAction
    <2>1. /\ UNCHANGED <<sequence, publication_seq, publisher, tick, observed_publication,
                         last_publication_seq, unread>>
          /\ control' = "notify"
      BY <1>6 DEF EnqueueAction, thread_vars
    <2>2. \A d \in Channels : Seen(d) => Seen(d)'
      BY <2>1 DEF Seen
    <2> QED
      BY <2>1, <2>2, <1>t, <1>n DEF SignalInv
  <1>7. CASE ActionNotify
    BY <1>7, <1>p DEF ActionNotify
  <1>8. ASSUME NEW s \in {"main", "monitor"}, StopPublication(s) PROVE SignalInv'
    BY <1>8, <1>p DEF StopPublication
  <1>9. CASE StartOne
    <2>1. CASE tick' = "head"
      BY <2>1, <1>9, <1>t, <1>n DEF StartOne, SignalInv, signal_vars
    <2>2. CASE UNCHANGED <<tick, running, stop_requested, last_publication_seq>>
      <3>1. UNCHANGED known /\ tick' = tick
        BY <2>2, <1>9 DEF StartOne, signal_vars
      <3> QED
        BY <3>1, <1>k
    <2> QED
      BY <2>1, <2>2, <1>9 DEF StartOne
  <1>10. CASE CheckPause \/ TestPause \/ BlockPause \/ SpuriousWakeup \/ CheckRunning
    <2>1. UNCHANGED known /\ tick' \notin {"snapshot", "end", "wait", "asleep"}
      BY <1>10 DEF CheckPause, TestPause, BlockPause, SpuriousWakeup, CheckRunning, signal_vars
    <2> QED
      BY <2>1, <1>k
  <1>11. CASE EndTick \/ WaitPublication \/ WaitTimeout
    <2>1. /\ UNCHANGED known
          /\ \/ tick' \notin {"snapshot", "end", "wait", "asleep"}
             \/ tick = "end" /\ tick' = "wait"
             \/ tick = "wait" /\ tick' = "asleep" /\ observed_publication = sequence
      BY <1>11 DEF EndTick, WaitPublication, WaitTimeout, signal_vars
    <2> QED
      BY <2>1, <1>k
  <1>12. CASE Toggle \/ ToggleNotify \/ RequestStop \/ ForceResume \/ Unpause \/ ResumeNotify
              \/ JoinMonitor \/ Reload \/ MonitorExit \/ UNCHANGED vars
    <2>1. UNCHANGED known /\ (tick' = tick \/ tick' = "pause_lock")
      BY <1>12 DEF Toggle, ToggleNotify, RequestStop, ForceResume, Unpause, ResumeNotify,
                   JoinMonitor, Reload, MonitorExit, NotifyPause, vars, signal_vars, thread_vars
    <2> QED
      BY <2>1, <1>k
  <1>13. ASSUME NEW s \in {"main", "monitor"}, StopFlags(s) \/ StopPause(s) \/ Join(s)
         PROVE  SignalInv'
    <2>1. UNCHANGED known /\ (tick' = tick \/ tick' \in {"pause_lock", "none"})
      BY <1>13 DEF StopFlags, StopPause, Join, NotifyPause, signal_vars
    <2> QED
      BY <2>1, <1>k
  <1> QED
    BY <1>1, <1>2, <1>3, <1>4, <1>5, <1>6, <1>7, <1>8, <1>9, <1>10, <1>11, <1>12, <1>13
    DEF Next, Thread, Notify, Main, Monitor, StopOne, Exited

(* A tick reads the sequence number before the snapshots, so whatever it has   *)
(* not seen has changed that number or is about to (global_logic.cpp:281-283). *)
THEOREM SignalInvariant == Spec => []SignalInv
  BY InitSignal, SignalStep, PTL DEF Spec

(* A global-logic thread never sleeps on a publication or an action it has not *)
(* seen, with any number of channels and at any moment of a pause, a reload or  *)
(* a shutdown.                                                                   *)
THEOREM NoUpdateIsMissed == Spec => []NoMissedUpdate
  <1>1. SignalInv => NoMissedUpdate
    <2> SUFFICES ASSUME SignalInv, tick = "asleep" PROVE NoMissedUpdate
      BY DEF NoMissedUpdate
    <2>1. observed_publication = sequence /\ sequence \in Nat /\ unread = {}
      BY DEF SignalInv, TypeOK
    <2>2. ~(observed_publication < sequence)
      BY <2>1
    <2> QED
      BY <2>1, <2>2 DEF SignalInv, Seen, NoMissedUpdate
  <1> QED
    BY <1>1, SignalInvariant, PTL

=============================================================================
