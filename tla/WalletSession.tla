---------------------------- MODULE WalletSession ----------------------------
(***************************************************************************)
(* The interactive wallet (WalletSession and run_shell of                  *)
(* src/mineai/wallet.py): a thread that reads commands and a watchdog      *)
(* thread that drops the key after a time without activity.  Every section *)
(* under the mutex, and every operation on the event that stops the        *)
(* watchdog, is a step.                                                    *)
(***************************************************************************)
EXTENDS Naturals

CONSTANT Timeout        \* in ticks of the clock
ASSUME TimeoutAssumption == Timeout \in Nat \ {0}

VARIABLES
    key,        \* the session holds the key
    idle,       \* the clock's time since _last, up to Timeout + 1
    stop,       \* the event that stops the watchdog
    watch,      \* where the watchdog is
    pc, then,   \* where the shell is, and where it goes after the call it is in
    once,       \* the process is a send command, not a shell
    late        \* history: the session had expired when the last line was entered

sessionVars == <<key, idle, stop, watch, pc, then, once, late>>

Expired == idle > Timeout

Goto(l)         == pc' = l /\ UNCHANGED <<then, once>>
Call(l, return) == pc' = l /\ then' = return /\ UNCHANGED once

\* After a transfer: the next command, or the end of the send command.
Finish == IF once THEN Call("lock", "off") ELSE Goto("prompt")

SessionInit ==
    /\ key = FALSE /\ idle = 0 /\ stop = FALSE /\ watch = "dead" /\ late = FALSE
    /\ pc = "off" /\ then = "prompt" /\ once = FALSE

\* _check_timeout.
CheckTimeout == key' = (key /\ ~Expired)

-----------------------------------------------------------------------------
(* The shell.                                                              *)

\* unlock with the right password; a wrong one is the way back to the prompt of the caller.
Unlock ==
    /\ pc = "unlock"
    /\ key' = TRUE /\ idle' = 0 /\ late' = FALSE
    /\ Goto("start") /\ UNCHANGED <<stop, watch>>

\* _start_watchdog, which leaves a thread that is still alive alone.
StartWatchdog ==
    /\ pc = "start"
    /\ stop'  = FALSE
    /\ watch' = IF watch = "dead" THEN "wait" ELSE watch
    /\ Goto(then) /\ UNCHANGED <<key, idle, late>>

\* lock: the key, then the event, which wakes a waiting watchdog for good.
Lock ==
    /\ pc = "lock"
    /\ key' = FALSE
    /\ Goto("stop") /\ UNCHANGED <<idle, stop, watch, late>>

StopWatchdog ==
    /\ pc = "stop"
    /\ stop'  = TRUE
    /\ watch' = IF watch = "wait" THEN "ending" ELSE watch
    /\ Goto(then) /\ UNCHANGED <<key, idle, late>>

\* The prompt shows whether the session is unlocked.
Prompt ==
    /\ pc = "prompt"
    /\ CheckTimeout
    /\ Goto("input") /\ UNCHANGED <<idle, stop, watch, late>>

\* A line is entered; or the input ends.
EnterLine ==
    /\ pc = "input"
    /\ \/ late' = Expired /\ Call("touch", "command")
       \/ Call("lock", "off") /\ UNCHANGED late
    /\ UNCHANGED <<key, idle, stop, watch>>

\* A mutation: activity is recorded without the check.
TouchBlindly == pc = "touch" /\ Goto("active") /\ UNCHANGED <<key, idle, stop, watch, late>>

\* touch.
Touch ==
    /\ pc = "touch"
    /\ CheckTimeout
    /\ Goto("active") /\ UNCHANGED <<idle, stop, watch, late>>

Active ==
    /\ pc = "active"
    /\ idle' = IF key THEN 0 ELSE idle
    /\ Goto(then) /\ UNCHANGED <<key, stop, watch, late>>

\* The commands; those that only ask the node or print, and those that fail, go back
\* to the prompt.
Command ==
    /\ pc = "command"
    /\ \/ Goto("prompt")
       \/ Call("lock", "off") \/ Call("lock", "prompt") \/ Call("unlock", "prompt")
       \/ Goto("confirm")
    /\ UNCHANGED <<key, idle, stop, watch, late>>

\* send, once the preview was shown: the owner confirms, after any time, or declines.
Confirm ==
    /\ pc = "confirm"
    /\ \/ late' = Expired /\ Goto("ask")
       \/ Goto("prompt") /\ UNCHANGED late
    /\ UNCHANGED <<key, idle, stop, watch>>

\* A locked session asks for the password again.
AskIfLocked ==
    /\ pc = "ask"
    /\ CheckTimeout
    /\ IF key' THEN Goto("check") ELSE Call("unlock", "check") \/ Goto("prompt")
    /\ UNCHANGED <<idle, stop, watch, late>>

\* sign_transfer.
SignCheck ==
    /\ pc = "check"
    /\ CheckTimeout
    /\ Goto("take") /\ UNCHANGED <<idle, stop, watch, late>>

TakeKey ==
    /\ pc = "take"
    /\ IF key THEN Call("touch", "sign") ELSE Finish
    /\ UNCHANGED <<key, idle, stop, watch, late>>

Sign == pc = "sign" /\ Finish /\ UNCHANGED <<key, idle, stop, watch, late>>

Shell ==
    \/ Unlock \/ StartWatchdog \/ Lock \/ StopWatchdog \/ Prompt \/ EnterLine \/ Touch \/ Active
    \/ Command \/ Confirm \/ AskIfLocked \/ SignCheck \/ TakeKey \/ Sign

-----------------------------------------------------------------------------
(* The watchdog thread, and the clock.                                     *)

\* The wait times out.
Wake ==
    /\ watch = "wait" /\ CheckTimeout
    /\ watch' = "look" /\ UNCHANGED <<idle, stop, pc, then, once, late>>

\* A mutation: it looks once.
LookOnce ==
    watch = "look" /\ watch' = "ending" /\ UNCHANGED <<key, idle, stop, pc, then, once, late>>

\* It returns when the key is gone; the next wait returns at once if the event is set.
Look ==
    /\ watch = "look"
    /\ watch' = IF ~key \/ stop THEN "ending" ELSE "wait"
    /\ UNCHANGED <<key, idle, stop, pc, then, once, late>>

\* It has returned, and then is not alive any more.
Die == watch = "ending" /\ watch' = "dead" /\ UNCHANGED <<key, idle, stop, pc, then, once, late>>

\* Threads and the session's clock last as long as the process.
Watchdog == pc # "off" /\ (Wake \/ Look \/ Die)

Tick == pc # "off" /\ ~Expired /\ idle' = idle + 1 /\ UNCHANGED <<key, stop, watch, pc, then, once, late>>
=============================================================================
