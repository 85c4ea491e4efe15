----------------------------- MODULE WalletProofs -----------------------------
(***************************************************************************)
(* No wallet key is ever lost, for all sets of keys, passwords, names and  *)
(* clock readings and any number of commands and kills; and an expired     *)
(* session is not revived, for every timeout.                              *)
(***************************************************************************)
EXTENDS MineaiWallet, TLAPS

\* A directory of files, and a command in one of the places it can be in.
FileTypeOK ==
    /\ files \in [Name -> Content]
    /\ cmd \in Cmd \cup {NoCmd}
    /\ made \subseteq Key /\ commands \in Nat

\* What the command under way has done so far.
CommandOK ==
    cmd # NoCmd =>
        /\ cmd.op # "change" => cmd.at \in {"open", "write"}
        /\ cmd.op = "create" => cmd.dest = Wallet
        /\ cmd.op = "copy"   => \E n \in Name : files[n] = cmd.doc
        /\ cmd.op = "change" => /\ cmd.dest = Staged
                                /\ cmd.at # "swap" => /\ Whole(files[Wallet])
                                                      /\ files[Wallet][1] = cmd.doc[1]
        /\ cmd.at = "write"  => files[cmd.dest] = Torn
        /\ cmd.at \in {"verify", "move", "swap"} => files[Staged] = cmd.doc

\* Files are overwritten or removed only by a change, and it starts only when there
\* is no staged file: then all files hold one key, and the wallet is one of them.
Changing == cmd # NoCmd /\ cmd.op = "change" /\ cmd.at # "open"
OneKey ==
    /\ files[Staged] = None \/ Changing =>
          \A m, n \in Name : Whole(files[m]) /\ Whole(files[n]) => files[m][1] = files[n][1]
    /\ files[Staged] = None =>
          Whole(files[Wallet]) \/ \A n \in Name : ~Whole(files[n])

\* The invariant that makes KeyKept inductive.
FileInv == FileTypeOK /\ CommandOK /\ OneKey /\ KeyKept

-----------------------------------------------------------------------------

\* A document is neither an absent nor a torn file, and a command is not NoCmd.
LEMMA WholeFacts ==
    /\ ~Whole(None) /\ ~Whole(Torn) /\ None # Torn
    /\ \A d \in Key \X Password : Whole(d) /\ d[1] \in Key /\ d # None /\ d # Torn
BY FileAssumption DEF Whole

LEMMA NoCmdFacts == NoCmd \notin Cmd
BY DEF NoCmd, Cmd

\* The invariant holds before the first command.
LEMMA FileInvInit == Init => FileInv
BY FileAssumption, WholeFacts
   DEF Init, FileInit, FileInv, FileTypeOK, CommandOK, OneKey, Changing, KeyKept, Content

\* A step of the session leaves the files alone.
LEMMA FileInvSame ==
    ASSUME FileInv, UNCHANGED <<files, cmd, made>>, commands' \in Nat
    PROVE  FileInv'
BY DEF FileInv, FileTypeOK, CommandOK, OneKey, Changing, KeyKept, Whole

\* A command begins: the files are as they were.
LEMMA BeginPreserves ==
    ASSUME FileInv,
           NEW op \in {"create", "copy", "change"}, NEW dest \in Name,
           NEW doc \in Key \X Password,
           Begin(op, dest, doc),
           op = "create" => dest = Wallet,
           op = "copy" => \E n \in Name : files[n] = doc,
           op = "change" => dest = Staged /\ Whole(files[Wallet]) /\ files[Wallet][1] = doc[1]
    PROVE  FileInv'
<1>1. cmd' \in Cmd /\ cmd' # NoCmd
  BY NoCmdFacts DEF Begin, Cmd
<1>2. FileTypeOK'
  BY <1>1 DEF FileInv, FileTypeOK, Begin
<1>3. CommandOK'
  BY DEF CommandOK, Begin, Whole
<1>4. OneKey'
  <2>1. ~Changing' /\ files' = files
    BY DEF Changing, Begin
  <2>. QED  BY <2>1 DEF FileInv, OneKey, Whole
<1>5. KeyKept'
  BY DEF FileInv, KeyKept, Begin, Whole
<1>. QED  BY <1>2, <1>3, <1>4, <1>5 DEF FileInv

\* A file is created where there was none.
LEMMA OpenPreserves == FileInv /\ OpenNew => FileInv'
<1>. SUFFICES ASSUME FileInv, OpenNew PROVE FileInv'
  OBVIOUS
<1>. USE DEF FileInv, FileTypeOK
<1>1. CASE Refused(cmd.dest)
  BY <1>1 DEF OpenNew, CommandOK, OneKey, Changing, KeyKept, Whole
<1>2. CASE ~Refused(cmd.dest)
  <2>1. /\ cmd \in Cmd /\ cmd.dest \in Name /\ cmd.at = "open" /\ cmd # NoCmd
        /\ files[cmd.dest] = None /\ files' = [files EXCEPT ![cmd.dest] = Torn]
        /\ cmd' = [cmd EXCEPT !.at = "write"] /\ UNCHANGED <<made, commands>>
    BY <1>2 DEF OpenNew, Refused, Cmd
  <2>2. cmd' \in Cmd /\ cmd' # NoCmd /\ cmd'.op = cmd.op /\ cmd'.dest = cmd.dest
        /\ cmd'.doc = cmd.doc /\ cmd'.at = "write" /\ cmd.doc \in Key \X Password
    BY <2>1, NoCmdFacts DEF Cmd
  <2>3. /\ \A n \in Name : Whole(files'[n]) <=> Whole(files[n])
        /\ \A n \in Name : Whole(files[n]) => files'[n] = files[n]
    BY <2>1, WholeFacts
  <2>4. FileTypeOK'
    BY <2>1, <2>2 DEF Content
  <2>5. CommandOK'
    BY <2>1, <2>2, <2>3, WholeFacts, FileAssumption DEF CommandOK
  <2>6. OneKey'
    <3>1. (files'[Staged] = None => files[Staged] = None) /\ (Changing' => cmd.dest = Staged)
      BY <2>1, <2>2, FileAssumption, WholeFacts DEF Changing, CommandOK
    <3>2. files'[Staged] = None \/ Changing' => files[Staged] = None
      BY <3>1, <2>1
    <3>. QED  BY <3>1, <3>2, <2>3, FileAssumption DEF OneKey
  <2>7. KeyKept'
    BY <2>1, <2>3 DEF KeyKept
  <2>. QED  BY <2>4, <2>5, <2>6, <2>7
<1>. QED  BY <1>1, <1>2

\* The document goes into the torn file.
LEMMA WritePreserves == FileInv /\ WriteNew => FileInv'
<1>. SUFFICES ASSUME FileInv, WriteNew PROVE FileInv'
  OBVIOUS
<1>. USE DEF FileInv, FileTypeOK
<1>1. /\ cmd \in Cmd /\ cmd.dest \in Name /\ cmd.doc \in Key \X Password /\ cmd # NoCmd
      /\ cmd.at = "write" /\ files[cmd.dest] = Torn /\ Whole(cmd.doc) /\ cmd.doc[1] \in Key
      /\ files' = [files EXCEPT ![cmd.dest] = cmd.doc]
  BY WholeFacts DEF WriteNew, CommandOK, Cmd
<1>2. /\ Whole(files'[cmd.dest]) /\ files'[cmd.dest] = cmd.doc
      /\ \A n \in Name : n # cmd.dest => files'[n] = files[n]
      /\ \A n \in Name : Whole(files[n]) => n # cmd.dest /\ files'[n] = files[n]
  BY <1>1, WholeFacts
<1>3. KeyKept'
  <2>. SUFFICES ASSUME NEW k \in made' PROVE \E n \in Name : Whole(files'[n]) /\ files'[n][1] = k
    BY DEF KeyKept, Whole
  <2>1. CASE k \in made
    BY <2>1, <1>2 DEF KeyKept
  <2>2. CASE k \notin made
    BY <2>2, <1>1, <1>2 DEF WriteNew
  <2>. QED  BY <2>1, <2>2
<1>4. made' \subseteq Key /\ commands' \in Nat /\ files' \in [Name -> Content]
  BY <1>1 DEF WriteNew, Content
<1>5. CASE cmd.op = "change"
  <2>1. cmd' = [cmd EXCEPT !.at = "verify"] /\ cmd.dest = Staged
    BY <1>1, <1>5 DEF WriteNew, CommandOK
  <2>2. cmd' \in Cmd /\ cmd' # NoCmd /\ cmd'.op = "change" /\ cmd'.dest = Staged
        /\ cmd'.doc = cmd.doc /\ cmd'.at = "verify"
    BY <2>1, <1>1, <1>5, NoCmdFacts DEF Cmd
  <2>3. Whole(files[Wallet]) /\ files[Wallet][1] = cmd.doc[1] /\ files'[Wallet] = files[Wallet]
    BY <1>1, <1>2, <1>5, FileAssumption DEF CommandOK
  <2>4. CommandOK'
    BY <2>1, <2>2, <2>3, <1>2 DEF CommandOK, Whole
  <2>5. OneKey'
    <3>1. \A m, n \in Name : Whole(files[m]) /\ Whole(files[n]) => files[m][1] = files[n][1]
      BY <1>1, <1>5 DEF OneKey, Changing
    <3>2. \A m \in Name : Whole(files'[m]) => files'[m][1] = cmd.doc[1]
      <4>. SUFFICES ASSUME NEW m \in Name, Whole(files'[m]), m # Staged
                    PROVE  files'[m][1] = cmd.doc[1]
        BY <1>2, <2>1
      <4>. QED  BY <3>1, <2>3, <1>2, <2>1, FileAssumption
    <3>3. files'[Staged] # None
      BY <1>1, <1>2, <2>1, WholeFacts
    <3>. QED  BY <3>2, <3>3 DEF OneKey, Whole
  <2>. QED  BY <2>2, <2>4, <2>5, <1>3, <1>4
<1>6. CASE cmd.op # "change"
  <2>1. cmd' = NoCmd
    BY <1>6 DEF WriteNew
  <2>2. CommandOK' /\ FileTypeOK' /\ ~Changing'
    BY <2>1, <1>4 DEF CommandOK, Changing
  <2>3. OneKey'
    <3>. SUFFICES ASSUME files'[Staged] = None
                  PROVE  /\ \A m, n \in Name : Whole(files'[m]) /\ Whole(files'[n])
                                                    => files'[m][1] = files'[n][1]
                         /\ Whole(files'[Wallet])
      BY <2>2 DEF OneKey, Whole
    <3>1. files[Staged] = None /\ cmd.dest # Staged
      BY <1>1, <1>2, FileAssumption, WholeFacts
    <3>2. CASE cmd.op = "create"
      <4>1. cmd.dest = Wallet /\ \A n \in Name : ~Whole(files[n])
        BY <3>1, <3>2, <1>1, WholeFacts DEF CommandOK, OneKey
      <4>. QED  BY <4>1, <1>2
    <3>3. CASE cmd.op = "copy"
      <4>1. PICK src \in Name : files[src] = cmd.doc
        BY <3>3, <1>1 DEF CommandOK
      <4>2. Whole(files[Wallet]) /\ cmd.dest # Wallet
        BY <4>1, <3>1, <1>1, WholeFacts DEF OneKey
      <4>3. \A m \in Name : Whole(files'[m]) => files'[m][1] = cmd.doc[1]
        BY <4>1, <3>1, <1>1, <1>2 DEF OneKey
      <4>. QED  BY <4>2, <4>3, <1>2, FileAssumption
    <3>. QED  BY <3>2, <3>3, <1>6, <1>1 DEF Cmd
  <2>. QED  BY <2>2, <2>3, <1>3
<1>. QED  BY <1>5, <1>6

\* The staged file is kept, or removed while the wallet is still there.
LEMMA VerifyPreserves == FileInv /\ VerifyStaged => FileInv'
<1>. SUFFICES ASSUME FileInv, VerifyStaged PROVE FileInv'
  OBVIOUS
<1>. USE DEF FileInv, FileTypeOK
<1>1. /\ cmd \in Cmd /\ cmd # NoCmd /\ cmd.at = "verify" /\ cmd.op = "change" /\ Changing
      /\ Whole(files[Wallet]) /\ files[Wallet][1] = cmd.doc[1] /\ files[Staged] = cmd.doc
  BY DEF VerifyStaged, CommandOK, Cmd, Changing
<1>2. CASE cmd' = [cmd EXCEPT !.at = "move"] /\ UNCHANGED files
  <2>1. cmd' \in Cmd /\ cmd' # NoCmd /\ cmd'.op = "change" /\ cmd'.dest = cmd.dest
        /\ cmd'.doc = cmd.doc /\ cmd'.at = "move"
    BY <1>1, <1>2, NoCmdFacts DEF Cmd
  <2>. QED  BY <1>1, <1>2, <2>1 DEF VerifyStaged, CommandOK, OneKey, Changing, KeyKept, Whole
<1>3. CASE cmd' = NoCmd /\ files' = [files EXCEPT ![Staged] = None]
  <2>1. /\ files'[Wallet] = files[Wallet] /\ ~Whole(files'[Staged])
        /\ \A n \in Name : Whole(files'[n]) => files'[n] = files[n]
    BY <1>3, FileAssumption, WholeFacts
  <2>2. FileTypeOK' /\ CommandOK'
    BY <1>3 DEF VerifyStaged, CommandOK, Content
  <2>3. OneKey'
    BY <2>1, <1>1 DEF OneKey, Whole
  <2>4. KeyKept'
    BY <2>1, <1>1, FileAssumption DEF VerifyStaged, KeyKept, OneKey
  <2>. QED  BY <2>2, <2>3, <2>4
<1>. QED  BY <1>2, <1>3 DEF VerifyStaged

\* What the renames overwrite has the key that the staged file and the wallet have.
LEMMA MovePreserves == ASSUME NEW s \in Second PROVE FileInv /\ MoveAway(s) => FileInv'
<1>. SUFFICES ASSUME FileInv, MoveAway(s) PROVE FileInv'
  OBVIOUS
<1>. USE DEF FileInv, FileTypeOK
<1>1. /\ cmd \in Cmd /\ cmd # NoCmd /\ cmd.at = "move" /\ cmd.op = "change" /\ Changing
      /\ cmd.dest = Staged /\ cmd.doc \in Key \X Password
      /\ Whole(files[Wallet]) /\ files[Wallet][1] = cmd.doc[1] /\ files[Staged] = cmd.doc
  BY DEF MoveAway, CommandOK, Cmd, Changing
<1>2. /\ cmd' \in Cmd /\ cmd' # NoCmd /\ cmd'.op = "change" /\ cmd'.dest = Staged
      /\ cmd'.doc = cmd.doc /\ cmd'.at = "swap"
  BY <1>1, NoCmdFacts DEF MoveAway, Cmd
<1>3. /\ files' \in [Name -> Content]
      /\ files'[Staged] = cmd.doc /\ Whole(files'[Staged]) /\ files'[Staged] # None
      /\ files'[Copy[s]] = files[Wallet] /\ ~Whole(files'[Wallet])
      /\ \A n \in Name : n \notin {Copy[s], Wallet} => files'[n] = files[n]
  BY <1>1, FileAssumption, WholeFacts DEF MoveAway, Content
<1>4. \A n \in Name : Whole(files[n]) => files[n][1] = cmd.doc[1]
  BY <1>1, FileAssumption DEF OneKey
<1>5. \A n \in Name : Whole(files'[n]) => files'[n][1] = cmd.doc[1]
  BY <1>1, <1>3, <1>4, FileAssumption
<1>6. FileTypeOK' /\ CommandOK'
  BY <1>1, <1>2, <1>3 DEF MoveAway, CommandOK
<1>7. OneKey'
  BY <1>3, <1>5 DEF OneKey, Whole
<1>8. KeyKept'
  BY <1>3, <1>4, FileAssumption DEF KeyKept, MoveAway
<1>. QED  BY <1>6, <1>7, <1>8

LEMMA SwapPreserves == FileInv /\ SwapIn => FileInv'
<1>. SUFFICES ASSUME FileInv, SwapIn PROVE FileInv'
  OBVIOUS
<1>. USE DEF FileInv, FileTypeOK
<1>1. /\ cmd \in Cmd /\ cmd.doc \in Key \X Password /\ Changing /\ files[Staged] = cmd.doc
      /\ Whole(cmd.doc)
  BY WholeFacts DEF SwapIn, CommandOK, Cmd, Changing
<1>2. /\ files' \in [Name -> Content]
      /\ files'[Wallet] = cmd.doc /\ ~Whole(files'[Staged])
      /\ \A n \in Name : n \notin {Wallet, Staged} => files'[n] = files[n]
  BY <1>1, FileAssumption, WholeFacts DEF SwapIn, Content
<1>3. \A n \in Name : Whole(files[n]) => files[n][1] = cmd.doc[1]
  BY <1>1, FileAssumption DEF OneKey
<1>4. \A n \in Name : Whole(files'[n]) => files'[n][1] = cmd.doc[1]
  BY <1>2, <1>3, FileAssumption
<1>5. FileTypeOK' /\ CommandOK'
  BY <1>2 DEF SwapIn, CommandOK
<1>6. OneKey'
  BY <1>1, <1>2, <1>4 DEF OneKey, Whole
<1>7. KeyKept'
  BY <1>1, <1>2, <1>3, FileAssumption DEF KeyKept, SwapIn
<1>. QED  BY <1>5, <1>6, <1>7

\* After a kill the staged file may be there: no change will start again.
LEMMA KillPreserves == FileInv /\ Kill => FileInv'
BY DEF FileInv, FileTypeOK, Kill, CommandOK, OneKey, Changing, KeyKept, Whole

\* Every step preserves the invariant.
LEMMA FileInvNext == FileInv /\ [Next]_vars => FileInv'
<1>. SUFFICES ASSUME FileInv, [Next]_vars PROVE FileInv'
  OBVIOUS
<1>1. CASE OpenSession
  BY <1>1, FileInvSame DEF OpenSession, FileInv, FileTypeOK
<1>2. CASE UNCHANGED fileVars
  BY <1>2, FileInvSame DEF fileVars, FileInv, FileTypeOK
<1>3. CASE FileNext
  <2>1. ASSUME NEW k \in Key, NEW p \in Password, Create(k, p) PROVE FileInv'
    <3>1. Begin("create", Wallet, <<k, p>>) /\ <<k, p>> \in Key \X Password
      BY <2>1 DEF Create
    <3>. QED  BY <3>1, BeginPreserves, FileAssumption
  <2>2. ASSUME NEW src \in Name, NEW dest \in Name, CopyTo(src, dest) PROVE FileInv'
    <3>1. Begin("copy", dest, files[src]) /\ files[src] \in Key \X Password
      BY <2>2 DEF CopyTo, Whole
    <3>. QED  BY <3>1, BeginPreserves
  <2>3. ASSUME NEW p \in Password, ChangePassword(p) PROVE FileInv'
    <3>. DEFINE doc == <<files[Wallet][1], p>>
    <3>1. /\ Begin("change", Staged, doc) /\ Whole(files[Wallet])
          /\ doc \in Key \X Password /\ doc[1] = files[Wallet][1]
      BY <2>3, FileAssumption DEF ChangePassword, Whole
    <3>. HIDE DEF doc
    <3>. QED  BY <3>1, BeginPreserves, FileAssumption
  <2>. QED  BY <1>3, <2>1, <2>2, <2>3, OpenPreserves, WritePreserves, VerifyPreserves,
              MovePreserves, SwapPreserves, KillPreserves DEF FileNext
<1>. QED  BY <1>1, <1>2, <1>3 DEF Next, vars

\* No wallet key is ever lost, whatever commands are run and killed.
THEOREM KeyNeverLost == Spec => []KeyKept
<1>1. Init => FileInv
  BY FileInvInit
<1>2. FileInv /\ [Next]_vars => FileInv'
  BY FileInvNext
<1>3. FileInv => KeyKept
  BY DEF FileInv
<1>. QED  BY <1>1, <1>2, <1>3, PTL DEF Spec

-----------------------------------------------------------------------------
(* The session.                                                            *)

\* Calls return to where they can have come from.
ReturnsOK ==
    /\ pc \in {"unlock", "start", "lock", "stop"} => then \in {"prompt", "check", "off"}
    /\ pc \in {"touch", "active"} => then \in {"command", "sign"}

\* Once the session was found expired it stays locked until the password is given; a
\* line entered too late keeps the key only up to the check that comes first.
LateOK ==
    late => /\ ~key \/ (Expired /\ (pc = "ask" \/ (pc = "touch" /\ then = "command")))
            /\ pc # "sign"
            /\ pc \in {"touch", "active"} => then # "sign"

\* The invariant that makes ExpiredNotRevived inductive.
SessionInv ==
    /\ idle \in Nat
    /\ ReturnsOK /\ LateOK

\* What the assignments of truth values mean.
LEMMA CheckFacts == CheckTimeout => (key' => key /\ ~Expired)
BY Zenon DEF CheckTimeout

LEMMA LateFacts == late' = Expired => (late' => Expired)
BY Zenon

LEMMA EnterFacts ==
    EnterLine => /\ pc = "input" /\ key' = key /\ idle' = idle
                 /\ \/ (late' => Expired) /\ pc' = "touch" /\ then' = "command"
                    \/ late' = late /\ pc' = "lock" /\ then' = "off"
<1>. SUFFICES ASSUME EnterLine
              PROVE  /\ pc = "input" /\ key' = key /\ idle' = idle
                     /\ \/ (late' => Expired) /\ pc' = "touch" /\ then' = "command"
                        \/ late' = late /\ pc' = "lock" /\ then' = "off"
  OBVIOUS
<1>1. pc = "input" /\ key' = key /\ idle' = idle
  BY DEF EnterLine
<1>2. CASE late' = Expired /\ Call("touch", "command")
  BY <1>1, <1>2, LateFacts, Zenon DEF Call
<1>3. CASE Call("lock", "off") /\ UNCHANGED late
  BY <1>1, <1>3 DEF Call
<1>. QED  BY <1>2, <1>3 DEF EnterLine

LEMMA ConfirmFacts ==
    Confirm => /\ pc = "confirm" /\ key' = key /\ idle' = idle /\ then' = then
               /\ \/ (late' => Expired) /\ pc' = "ask"
                  \/ late' = late /\ pc' = "prompt"
<1>. SUFFICES ASSUME Confirm
              PROVE  /\ pc = "confirm" /\ key' = key /\ idle' = idle /\ then' = then
                     /\ \/ (late' => Expired) /\ pc' = "ask"
                        \/ late' = late /\ pc' = "prompt"
  OBVIOUS
<1>1. pc = "confirm" /\ key' = key /\ idle' = idle /\ then' = then
  BY DEF Confirm, Goto
<1>2. CASE late' = Expired /\ Goto("ask")
  BY <1>1, <1>2, LateFacts, Zenon DEF Goto
<1>3. CASE Goto("prompt") /\ UNCHANGED late
  BY <1>1, <1>3 DEF Goto
<1>. QED  BY <1>2, <1>3 DEF Confirm

\* Every step preserves the invariant.
LEMMA SessionInvNext == SessionInv /\ [Next]_vars => SessionInv'
<1>. SUFFICES ASSUME SessionInv, [Next]_vars PROVE SessionInv'
  OBVIOUS
<1>. USE TimeoutAssumption DEF SessionInv, ReturnsOK, LateOK, Expired, Goto, Call
<1>1. CASE OpenSession
  BY <1>1 DEF OpenSession
<1>2. CASE Shell
  <2>1. CASE Unlock \/ StartWatchdog \/ Lock \/ StopWatchdog
    BY <2>1 DEF Unlock, StartWatchdog, Lock, StopWatchdog
  <2>2. CASE Prompt \/ Touch \/ SignCheck
    BY <2>2, CheckFacts DEF Prompt, Touch, SignCheck
  <2>3. CASE EnterLine \/ Confirm
    BY <2>3, EnterFacts, ConfirmFacts
  <2>4. CASE Active \/ Command
    BY <2>4 DEF Active, Command
  <2>5. CASE AskIfLocked
    BY <2>5, CheckFacts DEF AskIfLocked
  <2>6. CASE TakeKey \/ Sign
    BY <2>6 DEF TakeKey, Sign, Finish
  <2>. QED  BY <1>2, <2>1, <2>2, <2>3, <2>4, <2>5, <2>6 DEF Shell
<1>3. CASE Watchdog
  BY <1>3, CheckFacts DEF Watchdog, Wake, Look, Die
<1>4. CASE Tick
  BY <1>4 DEF Tick
<1>5. CASE UNCHANGED sessionVars
  BY <1>5 DEF sessionVars
<1>. QED  BY <1>1, <1>2, <1>3, <1>4, <1>5 DEF Next, vars

\* Activity never revives a session that has expired, and no late confirmation signs.
THEOREM NeverRevived == Spec => []ExpiredNotRevived
<1>1. Init => SessionInv
  BY DEF Init, SessionInit, SessionInv, ReturnsOK, LateOK
<1>2. SessionInv /\ [Next]_vars => SessionInv'
  BY SessionInvNext
<1>3. SessionInv => ExpiredNotRevived
  BY DEF SessionInv, LateOK, ExpiredNotRevived
<1>. QED  BY <1>1, <1>2, <1>3, PTL DEF Spec
=============================================================================
