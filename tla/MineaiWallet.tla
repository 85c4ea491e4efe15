----------------------------- MODULE MineaiWallet -----------------------------
(***************************************************************************)
(* The wallet: a shell that was opened on the wallet's file, and commands  *)
(* on the files beside it; and what the two promise.                       *)
(***************************************************************************)
EXTENDS WalletSession, WalletFile

vars == <<sessionVars, fileVars>>

Init == SessionInit /\ FileInit

\* The shell and send commands: load_wallet, then the password.
OpenSession ==
    /\ pc = "off" /\ cmd = NoCmd /\ commands < MaxCommands /\ Whole(files[Wallet])
    /\ commands' = commands + 1
    /\ pc' = "unlock"
    /\ \/ then' = "prompt" /\ once' = FALSE
       \/ then' = "check" /\ once' = TRUE
    /\ key' = FALSE /\ idle' = 0 /\ stop' = FALSE /\ watch' = "dead" /\ late' = FALSE
    /\ UNCHANGED <<files, cmd, made>>

Next ==
    \/ OpenSession
    \/ (Shell \/ Watchdog \/ Tick) /\ UNCHANGED fileVars
    \/ pc = "off" /\ FileNext /\ UNCHANGED sessionVars

\* Time passes and the watchdog thread runs; nobody has to type.
Spec == /\ Init /\ [][Next]_vars
        /\ WF_vars(Tick /\ UNCHANGED fileVars)
        /\ WF_vars(Watchdog /\ UNCHANGED fileVars)

-----------------------------------------------------------------------------

\* No key of a wallet that was created is ever lost: through kills at any step,
\* backups, restores, second wallets, and password changes within one second of each
\* other, some file holds it whole.
KeyKept == \A k \in made : \E n \in Name : Whole(files[n]) /\ files[n][1] = k

\* A session that had expired when a line was entered is not revived by it, whichever
\* thread notices first: it is locked when the command runs, and nothing is signed for
\* an owner who confirmed too late and did not give the password again (touch,
\* run_shell, sign_transfer).
ExpiredNotRevived == late => ~(pc = "command" /\ key) /\ pc # "sign"

\* A session that the watchdog waits for does not keep its key unless it is used.
Watched == (key /\ watch = "wait") ~> (~key \/ idle = 0)
=============================================================================
