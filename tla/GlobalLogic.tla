----------------------------- MODULE GlobalLogic -----------------------------
(***************************************************************************)
(* One global-logic instance (src/engine/src/logic/core/global_logic.cpp):  *)
(* a thread that runs when a channel publishes or an action is queued, and   *)
(* otherwise at its polling interval. It blocks in two places: in            *)
(* pause_ctrl::wait_if_paused and in publication_signal_wait. The main       *)
(* thread toggles the pause and shuts the program down; the config monitor    *)
(* stops and replaces the thread when its configuration changes.              *)
(*                                                                          *)
(* A critical section is one action, except that of wait_if_paused, which    *)
(* keeps g_mtx from the test of its predicate until it blocks: notify_all     *)
(* does not need that mutex and may come in between.                          *)
(*                                                                          *)
(* A definition marked "Mutant" is a plausible bug in the definition that   *)
(* follows it; no behaviour uses it.                                        *)
(***************************************************************************)
EXTENDS Integers

CONSTANTS
    Channels,          \* the channels of the program
    PauseEnabled,      \* pause_ctrl::g_enabled
    MayStop,           \* whether the program is ever asked to stop
    MaxPublications,   \* bound on the publications of a channel
    MaxActions,        \* bound on the global actions sent
    MaxToggles,        \* bound on the pause toggles
    MaxReloads         \* bound on the reloads that change this instance

ASSUME GlobalLogicAssumption ==
    /\ Channels \subseteq Int
    /\ PauseEnabled \in BOOLEAN
    /\ MayStop \in BOOLEAN
    /\ MaxPublications \in Nat
    /\ MaxActions \in Nat
    /\ MaxToggles \in Nat
    /\ MaxReloads \in Nat

VARIABLES
    g_paused,               \* pause_ctrl
    g_force_resume,
    isRunning,              \* APP_CTRL::isRunning
    sequence,               \* publication_signal's g_publication_sequence
    publication_seq,        \* ChannelState::publication_seq of each channel
    publisher,              \* who holds chn_mtx in commit_publication
    action_queue,           \* number of actions queued for the instance
    control,                \* the logic_control thread in enqueue_global_action
    tick,                   \* position of the instance's thread
    running,                \* GlobalLogicThread
    stop_requested,
    observed_publication,
    last_publication_seq,
    unread,                 \* channels whose snapshot this tick still takes
    drawn,                  \* whether draw commands of the instance are shown
    at,                     \* position of the main thread and of the config monitor
    actions_sent,           \* bounded by MaxActions
    toggles,                \* bounded by MaxToggles
    reloads                 \* bounded by MaxReloads

pause_vars  == <<g_paused, g_force_resume>>
signal_vars == <<sequence, publication_seq, publisher, action_queue, control, actions_sent>>
thread_vars == <<tick, running, stop_requested, observed_publication,
                 last_publication_seq, unread, drawn>>
stop_vars   == <<isRunning, at, toggles, reloads>>
vars == <<pause_vars, signal_vars, thread_vars, stop_vars>>

Init ==
    /\ g_paused = FALSE
    /\ g_force_resume = FALSE
    /\ isRunning = TRUE
    /\ sequence = 0
    /\ publication_seq = [c \in Channels |-> 0]
    /\ publisher = [c \in Channels |-> "idle"]
    /\ action_queue = 0
    /\ control = "idle"
    /\ tick = "head"
    /\ running = TRUE
    /\ stop_requested = FALSE
    /\ observed_publication = 0
    /\ last_publication_seq = [c \in Channels |-> 0]
    /\ unread = {}
    /\ drawn = FALSE
    /\ at = [main |-> "run", monitor |-> "poll"]
    /\ actions_sent = 0
    /\ toggles = 0
    /\ reloads = 0

-----------------------------------------------------------------------------
(* wait_if_paused.                                                          *)

(* The fast path, without a lock.                                           *)
CheckPause ==
    /\ tick = "head"
    /\ tick' = IF PauseEnabled /\ g_paused /\ ~g_force_resume THEN "pause_lock" ELSE "resumed"
    /\ UNCHANGED <<pause_vars, signal_vars, running, stop_requested, observed_publication,
                   last_publication_seq, unread, drawn, stop_vars>>

(* The predicate of the wait, tested with g_mtx held.                        *)
TestPause ==
    /\ tick = "pause_lock"
    /\ tick' = IF g_paused /\ ~g_force_resume /\ running THEN "pause_tested" ELSE "resumed"
    /\ UNCHANGED <<pause_vars, signal_vars, running, stop_requested, observed_publication,
                   last_publication_seq, unread, drawn, stop_vars>>

(* Releases g_mtx and blocks, atomically.                                    *)
BlockPause ==
    /\ tick = "pause_tested"
    /\ tick' = "pause_asleep"
    /\ UNCHANGED <<pause_vars, signal_vars, running, stop_requested, observed_publication,
                   last_publication_seq, unread, drawn, stop_vars>>

SpuriousWakeup ==
    /\ tick = "pause_asleep"
    /\ tick' = "pause_lock"
    /\ UNCHANGED <<pause_vars, signal_vars, running, stop_requested, observed_publication,
                   last_publication_seq, unread, drawn, stop_vars>>

(* g_cv.notify_all: only a thread that is already blocked notices.           *)
NotifyPause == tick' = IF tick = "pause_asleep" THEN "pause_lock" ELSE tick

(* publication_signal_notify.                                                *)
NotifyPublication ==
    /\ sequence' = sequence + 1
    /\ tick' = IF tick = "asleep" THEN "head" ELSE tick

-----------------------------------------------------------------------------
(* global_logic_thread_func.                                                *)

CheckRunning ==
    /\ tick = "resumed"
    /\ tick' = IF running THEN "observe" ELSE "exited"
    /\ UNCHANGED <<pause_vars, signal_vars, running, stop_requested, observed_publication,
                   last_publication_seq, unread, drawn, stop_vars>>

(* The sequence number is read before the snapshots.                         *)
Observe ==
    /\ tick = "observe"
    /\ observed_publication' = sequence
    /\ unread' = Channels
    /\ tick' = "snapshot"
    /\ UNCHANGED <<pause_vars, signal_vars, running, stop_requested,
                   last_publication_seq, drawn, stop_vars>>

(* app_ctrl_get_channel_logic_snapshot, under chn_mtx, channel by channel.   *)
Snapshot(c) ==
    /\ tick = "snapshot"
    /\ c \in unread
    /\ \A d \in unread : c <= d
    /\ publisher[c] = "idle"
    /\ last_publication_seq' = [last_publication_seq EXCEPT ![c] = publication_seq[c]]
    /\ unread' = unread \ {c}
    /\ UNCHANGED <<pause_vars, signal_vars, tick, running, stop_requested,
                   observed_publication, drawn, stop_vars>>

(* logic_control_take_global, then the action handlers and the logic, which  *)
(* may draw.                                                                  *)
RunLogic ==
    /\ tick = "snapshot"
    /\ unread = {}
    /\ action_queue' = 0
    /\ drawn' \in BOOLEAN
    /\ tick' = "end"
    /\ UNCHANGED <<pause_vars, sequence, publication_seq, publisher, control, actions_sent,
                   running, stop_requested, observed_publication, last_publication_seq,
                   unread, stop_vars>>

(* A tick that took its whole interval starts the next one at once.          *)
EndTick ==
    /\ tick = "end"
    /\ IF stop_requested THEN tick' = "exited" ELSE tick' \in {"wait", "head"}
    /\ UNCHANGED <<pause_vars, signal_vars, running, stop_requested, observed_publication,
                   last_publication_seq, unread, drawn, stop_vars>>

(* Mutant: the wait does not compare with what the tick has observed.        *)
WaitPublicationUnchecked ==
    /\ tick = "wait"
    /\ tick' = "asleep"
    /\ UNCHANGED <<pause_vars, signal_vars, running, stop_requested, observed_publication,
                   last_publication_seq, unread, drawn, stop_vars>>

WaitPublication ==
    /\ tick = "wait"
    /\ tick' = IF sequence = observed_publication THEN "asleep" ELSE "head"
    /\ UNCHANGED <<pause_vars, signal_vars, running, stop_requested, observed_publication,
                   last_publication_seq, unread, drawn, stop_vars>>

WaitTimeout ==
    /\ tick = "asleep"
    /\ tick' = "head"
    /\ UNCHANGED <<pause_vars, signal_vars, running, stop_requested, observed_publication,
                   last_publication_seq, unread, drawn, stop_vars>>

-----------------------------------------------------------------------------
(* The sources of work.                                                     *)

(* commit_publication increments the channel's number and notifies, with     *)
(* chn_mtx held throughout.                                                   *)
Commit(c) ==
    /\ publisher[c] = "idle"
    /\ publication_seq[c] < MaxPublications
    /\ publication_seq' = [publication_seq EXCEPT ![c] = @ + 1]
    /\ publisher' = [publisher EXCEPT ![c] = "notify"]
    /\ UNCHANGED <<pause_vars, sequence, action_queue, control, actions_sent, thread_vars,
                   stop_vars>>

CommitNotify(c) ==
    /\ publisher[c] = "notify"
    /\ publisher' = [publisher EXCEPT ![c] = "idle"]
    /\ NotifyPublication
    /\ UNCHANGED <<pause_vars, publication_seq, action_queue, control, actions_sent, running,
                   stop_requested, observed_publication, last_publication_seq, unread,
                   drawn, stop_vars>>

(* Mutant: a queued action waits for the next poll.                          *)
EnqueueActionSilently ==
    /\ control = "idle"
    /\ actions_sent < MaxActions
    /\ actions_sent' = actions_sent + 1
    /\ action_queue' = action_queue + 1
    /\ UNCHANGED <<pause_vars, sequence, publication_seq, publisher, control, thread_vars,
                   stop_vars>>

(* enqueue_global_action; the caller notifies after it has released the      *)
(* queue's mutex.                                                             *)
EnqueueAction ==
    /\ control = "idle"
    /\ actions_sent < MaxActions
    /\ actions_sent' = actions_sent + 1
    /\ action_queue' = action_queue + 1
    /\ control' = "notify"
    /\ UNCHANGED <<pause_vars, sequence, publication_seq, publisher, thread_vars, stop_vars>>

ActionNotify ==
    /\ control = "notify"
    /\ control' = "idle"
    /\ NotifyPublication
    /\ UNCHANGED <<pause_vars, publication_seq, publisher, action_queue, actions_sent, running,
                   stop_requested, observed_publication, last_publication_seq, unread,
                   drawn, stop_vars>>

-----------------------------------------------------------------------------
(* The main thread: pause_ctrl::toggle, and the end of main.                 *)

(* Mutant: the pause flag is changed without the mutex.                      *)
ToggleUnlocked ==
    /\ at.main = "run"
    /\ PauseEnabled
    /\ toggles < MaxToggles
    /\ toggles' = toggles + 1
    /\ g_paused' = ~g_paused
    /\ at' = [at EXCEPT !.main = IF g_paused THEN "toggle_notify" ELSE "run"]
    /\ UNCHANGED <<g_force_resume, signal_vars, thread_vars, isRunning, reloads>>

(* g_paused changes under g_mtx, so not between the test and the block.      *)
Toggle ==
    /\ at.main = "run"
    /\ PauseEnabled
    /\ toggles < MaxToggles
    /\ tick # "pause_tested"
    /\ toggles' = toggles + 1
    /\ g_paused' = ~g_paused
    /\ at' = [at EXCEPT !.main = IF g_paused THEN "toggle_notify" ELSE "run"]
    /\ UNCHANGED <<g_force_resume, signal_vars, thread_vars, isRunning, reloads>>

ToggleNotify ==
    /\ at.main = "toggle_notify"
    /\ at' = [at EXCEPT !.main = "run"]
    /\ NotifyPause
    /\ UNCHANGED <<pause_vars, signal_vars, running, stop_requested, observed_publication,
                   last_publication_seq, unread, drawn, isRunning, toggles, reloads>>

(* app_ctrl_request_stop.                                                    *)
RequestStop ==
    /\ at.main = "run"
    /\ MayStop
    /\ isRunning' = FALSE
    /\ at' = [at EXCEPT !.main = "force"]
    /\ UNCHANGED <<pause_vars, signal_vars, thread_vars, toggles, reloads>>

(* resume_all: two stores and a notification, without g_mtx.                 *)
ForceResume ==
    /\ at.main = "force"
    /\ g_force_resume' = TRUE
    /\ at' = [at EXCEPT !.main = "unpause"]
    /\ UNCHANGED <<g_paused, signal_vars, thread_vars, isRunning, toggles, reloads>>

Unpause ==
    /\ at.main = "unpause"
    /\ g_paused' = FALSE
    /\ at' = [at EXCEPT !.main = "resume_notify"]
    /\ UNCHANGED <<g_force_resume, signal_vars, thread_vars, isRunning, toggles, reloads>>

ResumeNotify ==
    /\ at.main = "resume_notify"
    /\ at' = [at EXCEPT !.main = "join_monitor"]
    /\ NotifyPause
    /\ UNCHANGED <<pause_vars, signal_vars, running, stop_requested, observed_publication,
                   last_publication_seq, unread, drawn, isRunning, toggles, reloads>>

(* global_logic_stop_all comes last; there may be no thread left to stop.    *)
JoinMonitor ==
    /\ at.main = "join_monitor"
    /\ at.monitor = "exited"
    /\ at' = [at EXCEPT !.main = IF tick = "none" THEN "exited" ELSE "stop"]
    /\ UNCHANGED <<pause_vars, signal_vars, thread_vars, isRunning, toggles, reloads>>

-----------------------------------------------------------------------------
(* stop_one, called by the main thread or by the config monitor.             *)

StopFlags(s) ==
    /\ at[s] = "stop"
    /\ stop_requested' = TRUE
    /\ running' = FALSE
    /\ at' = [at EXCEPT ![s] = "stop_publication"]
    /\ UNCHANGED <<pause_vars, signal_vars, tick, observed_publication,
                   last_publication_seq, unread, drawn, isRunning, toggles, reloads>>

(* Mutant: a thread that waits for a publication is left to its timeout.     *)
StopPublicationSkipped(s) ==
    /\ at[s] = "stop_publication"
    /\ at' = [at EXCEPT ![s] = "stop_pause"]
    /\ UNCHANGED <<pause_vars, signal_vars, thread_vars, isRunning, toggles, reloads>>

StopPublication(s) ==
    /\ at[s] = "stop_publication"
    /\ at' = [at EXCEPT ![s] = "stop_pause"]
    /\ NotifyPublication
    /\ UNCHANGED <<pause_vars, publication_seq, publisher, action_queue, control,
                   actions_sent, running, stop_requested, observed_publication,
                   last_publication_seq, unread, drawn, isRunning, toggles, reloads>>

(* pause_ctrl::notify_waiters, without g_mtx.                                *)
StopPause(s) ==
    /\ at[s] = "stop_pause"
    /\ at' = [at EXCEPT ![s] = "join"]
    /\ NotifyPause
    /\ UNCHANGED <<pause_vars, signal_vars, running, stop_requested, observed_publication,
                   last_publication_seq, unread, drawn, isRunning, toggles, reloads>>


(* pthread_join, then app_ctrl_clear_all_global_draw_commands.               *)
Join(s) ==
    /\ at[s] = "join"
    /\ tick = "exited"
    /\ tick' = "none"
    /\ drawn' = FALSE
    /\ at' = [at EXCEPT ![s] = IF s = "main" THEN "exited" ELSE "start"]
    /\ UNCHANGED <<pause_vars, signal_vars, running, stop_requested, observed_publication,
                   last_publication_seq, unread, isRunning, toggles, reloads>>

-----------------------------------------------------------------------------
(* The config monitor: global_logic_reload_all, with g_threads_mtx held.      *)

(* The configuration of the instance has changed: stop it, or create the one *)
(* that does not exist.                                                       *)
Reload ==
    /\ at.monitor = "poll"
    /\ isRunning
    /\ reloads < MaxReloads
    /\ reloads' = reloads + 1
    /\ at' = [at EXCEPT !.monitor = IF tick = "none" THEN "start" ELSE "stop"]
    /\ UNCHANGED <<pause_vars, signal_vars, thread_vars, isRunning, toggles>>

(* start_one; not called if the instance was removed, and it may fail.       *)
StartOne ==
    /\ at.monitor = "start"
    /\ at' = [at EXCEPT !.monitor = "poll"]
    /\ \/ /\ tick' = "head"
          /\ running' = TRUE
          /\ stop_requested' = FALSE
          /\ last_publication_seq' = [c \in Channels |-> 0]
       \/ UNCHANGED <<tick, running, stop_requested, last_publication_seq>>
    /\ UNCHANGED <<pause_vars, signal_vars, observed_publication, unread, drawn, isRunning,
                   toggles, reloads>>

MonitorExit ==
    /\ at.monitor = "poll"
    /\ ~isRunning
    /\ at' = [at EXCEPT !.monitor = "exited"]
    /\ UNCHANGED <<pause_vars, signal_vars, thread_vars, isRunning, toggles, reloads>>

-----------------------------------------------------------------------------
Thread ==
    \/ CheckPause \/ TestPause \/ BlockPause \/ CheckRunning
    \/ Observe \/ \E c \in Channels : Snapshot(c)
    \/ RunLogic \/ EndTick \/ WaitPublication
Notify   == ActionNotify \/ \E c \in Channels : CommitNotify(c)
StopOne(s) == StopFlags(s) \/ StopPublication(s) \/ StopPause(s) \/ Join(s)
Main     == ToggleNotify \/ ForceResume \/ Unpause \/ ResumeNotify \/ JoinMonitor \/ StopOne("main")
Monitor  == StopOne("monitor") \/ StartOne \/ MonitorExit

(* main has joined everything.                                               *)
Exited == at.main = "exited" /\ UNCHANGED vars

Next ==
    \/ Thread
    \/ SpuriousWakeup
    \/ WaitTimeout
    \/ Notify
    \/ EnqueueAction
    \/ \E c \in Channels : Commit(c)
    \/ Main
    \/ Toggle
    \/ RequestStop
    \/ Monitor
    \/ Reload
    \/ Exited

Spec == Init /\ [][Next]_vars

(* Threads run and finish what they have begun. Nothing is assumed of the     *)
(* timeout, so that what is shown of wake-ups does not rest on polling.        *)
FairSpec ==
    /\ Spec
    /\ WF_vars(Thread)
    /\ WF_vars(ActionNotify)
    /\ \A c \in Channels : WF_vars(CommitNotify(c))
    /\ WF_vars(Main)
    /\ WF_vars(Monitor)

-----------------------------------------------------------------------------
StopStep == {"stop", "stop_publication", "stop_pause", "join"}
MainStep == StopStep \cup {"run", "toggle_notify", "force", "unpause", "resume_notify",
                           "join_monitor", "exited"}
MonitorStep == StopStep \cup {"poll", "start", "exited"}
At == [main : MainStep, monitor : MonitorStep]

TypeOK ==
    /\ g_paused \in BOOLEAN
    /\ g_force_resume \in BOOLEAN
    /\ isRunning \in BOOLEAN
    /\ sequence \in Nat
    /\ publication_seq \in [Channels -> 0..MaxPublications]
    /\ publisher \in [Channels -> {"idle", "notify"}]
    /\ action_queue \in 0..actions_sent
    /\ control \in {"idle", "notify"}
    /\ tick \in {"head", "pause_lock", "pause_tested", "pause_asleep", "resumed", "observe",
                 "snapshot", "end", "wait", "asleep", "exited", "none"}
    /\ running \in BOOLEAN
    /\ stop_requested \in BOOLEAN
    /\ observed_publication \in Nat
    /\ last_publication_seq \in [Channels -> 0..MaxPublications]
    /\ unread \subseteq Channels
    /\ drawn \in BOOLEAN
    /\ at \in At
    /\ actions_sent \in 0..MaxActions
    /\ toggles \in 0..MaxToggles
    /\ reloads \in 0..MaxReloads

(* A thread that sleeps until the next publication has seen everything: each *)
(* channel's last publication and every queued action, except those whose      *)
(* notification is still to come (global_logic.cpp:281-282,                    *)
(* logic_control.cpp:133).                                                      *)
NoMissedUpdate ==
    tick = "asleep" =>
        /\ \A c \in Channels :
              last_publication_seq[c] = publication_seq[c] \/ publisher[c] = "notify"
        /\ action_queue = 0 \/ control = "notify"

(* A thread that is blocked although the pause is over is about to be woken    *)
(* by toggle (pause_ctrl.cpp:6-8).                                              *)
SleeperIsNotified ==
    tick = "pause_asleep" /\ ~g_paused => at.main \in {"toggle_notify", "resume_notify"}


(* Publications and actions reach the logic without the help of the polling     *)
(* interval, unless the program stays paused or has no such instance.           *)
UpdatesReachLogic ==
    /\ \A c \in Channels :
          []<>(last_publication_seq[c] = publication_seq[c] \/ g_paused \/ tick = "none")
    /\ []<>(action_queue = 0 \/ g_paused \/ tick = "none")

(* A reload ends: the thread it stops notices, wherever it is blocked           *)
(* (pause_ctrl.h:59, global_logic.cpp:432-442).                                 *)
ReloadTerminates == at.monitor # "poll" ~> at.monitor \in {"poll", "exited"}

(* The program ends once it is asked to (pause_ctrl.cpp:10-11,                  *)
(* main.cpp:450-508).                                                            *)
ShutdownTerminates == ~isRunning ~> at.main = "exited"

(* Why NoMissedUpdate holds: what the current tick has not seen has either      *)
(* changed the sequence number since the tick read it, or will.                 *)
Seen(c) ==
    \/ last_publication_seq[c] = publication_seq[c]
    \/ publisher[c] = "notify"
    \/ observed_publication < sequence

SignalInv ==
    /\ TypeOK
    /\ observed_publication <= sequence
    /\ tick \in {"snapshot", "end", "wait", "asleep"} =>
          \A c \in Channels \ unread : Seen(c)
    /\ tick \in {"end", "wait", "asleep"} =>
          /\ unread = {}
          /\ action_queue = 0 \/ control = "notify" \/ observed_publication < sequence
    /\ tick = "asleep" => observed_publication = sequence

=============================================================================
