------------------------------ MODULE WalletFile ------------------------------
(***************************************************************************)
(* Wallet files (src/mineai/wallet.py): creating one, copying it to or from *)
(* a backup, and changing its password, with a crash between any two calls *)
(* to the operating system.  The owner runs one command at a time.         *)
(*                                                                         *)
(* A file is absent, torn (created, not yet written) or an encrypted key,  *)
(* <<key, password>>.                                                      *)
(***************************************************************************)
EXTENDS Naturals

CONSTANTS
    Key, Password,
    Name,               \* names of files
    Wallet, Staged,     \* the wallet's, and the same with ".new"
    Second, Copy,       \* clock readings, and the name of the previous file for each
    None, Torn,
    MaxCommands         \* bound: commands run

ASSUME FileAssumption ==
    /\ Wallet \in Name /\ Staged \in Name /\ Copy \in [Second -> Name]
    /\ Wallet # Staged /\ \A s \in Second : Copy[s] \notin {Wallet, Staged}
    /\ None \notin Key \X Password /\ Torn \notin Key \X Password /\ None # Torn
    /\ MaxCommands \in Nat

VARIABLES
    files,      \* the directory
    cmd,        \* the command under way
    made,       \* history: keys whose create command has returned
    commands    \* how many commands were run

fileVars == <<files, cmd, made, commands>>

Content == (Key \X Password) \cup {None, Torn}
Whole(f) == f \in Key \X Password

\* Between two calls: the command, where it is, the file it writes and the document.
Cmd  == [op: {"create", "copy", "change"}, at: {"open", "write", "verify", "move", "swap"},
         dest: Name, doc: Key \X Password]
NoCmd == [op |-> "none"]

FileInit ==
    /\ files = [n \in Name |-> None] /\ cmd = NoCmd /\ made = {} /\ commands = 0

Begin(op, dest, doc) ==
    /\ cmd = NoCmd /\ commands < MaxCommands
    /\ commands' = commands + 1
    /\ cmd' = [op |-> op, at |-> "open", dest |-> dest, doc |-> doc]
    /\ UNCHANGED <<files, made>>

\* create_wallet_file: a key that is new.
Create(k, p) ==
    /\ k \notin made /\ \A n \in Name : Whole(files[n]) => files[n][1] # k
    /\ Begin("create", Wallet, <<k, p>>)

\* backup_wallet and restore_wallet: a valid document, to a name that is not its own.
CopyTo(src, dest) == Whole(files[src]) /\ src # dest /\ Begin("copy", dest, files[src])

\* change_wallet_password, up to the re-encryption of the key.
ChangePassword(p) == Whole(files[Wallet]) /\ Begin("change", Staged, <<files[Wallet][1], p>>)

\* A mutation: the file is opened without O_EXCL.
RefusedNever(dest) == FALSE

\* _write_new_file never overwrites.
Refused(dest) == files[dest] # None

OpenNew ==
    /\ cmd # NoCmd /\ cmd.at = "open"
    /\ IF Refused(cmd.dest)
       THEN cmd' = NoCmd /\ UNCHANGED files
       ELSE /\ files' = [files EXCEPT ![cmd.dest] = Torn]
            /\ cmd' = [cmd EXCEPT !.at = "write"]
    /\ UNCHANGED <<made, commands>>

\* The data is written and synced; all but a change then only read it back.
WriteNew ==
    /\ cmd # NoCmd /\ cmd.at = "write"
    /\ files' = [files EXCEPT ![cmd.dest] = cmd.doc]
    /\ made'  = IF cmd.op = "create" THEN made \cup {cmd.doc[1]} ELSE made
    /\ cmd'   = IF cmd.op = "change" THEN [cmd EXCEPT !.at = "verify"] ELSE NoCmd
    /\ UNCHANGED commands

\* The staged file is read back; if it does not decrypt it is removed.
VerifyStaged ==
    /\ cmd # NoCmd /\ cmd.at = "verify"
    /\ \/ cmd' = [cmd EXCEPT !.at = "move"] /\ UNCHANGED files
       \/ cmd' = NoCmd /\ files' = [files EXCEPT ![Staged] = None]
    /\ UNCHANGED <<made, commands>>

\* The two calls of os.replace, which overwrites.
MoveAway(s) ==
    /\ cmd # NoCmd /\ cmd.at = "move"
    /\ files' = [files EXCEPT ![Copy[s]] = files[Wallet], ![Wallet] = None]
    /\ cmd'   = [cmd EXCEPT !.at = "swap"]
    /\ UNCHANGED <<made, commands>>

SwapIn ==
    /\ cmd # NoCmd /\ cmd.at = "swap"
    /\ files' = [files EXCEPT ![Wallet] = files[Staged], ![Staged] = None]
    /\ cmd'   = NoCmd
    /\ UNCHANGED <<made, commands>>

\* The process is killed; the directory is what the last call left.
Kill == cmd # NoCmd /\ cmd' = NoCmd /\ UNCHANGED <<files, made, commands>>

FileNext ==
    \/ \E k \in Key, p \in Password : Create(k, p)
    \/ \E src, dest \in Name : CopyTo(src, dest)
    \/ \E p \in Password : ChangePassword(p)
    \/ OpenNew \/ WriteNew \/ VerifyStaged \/ (\E s \in Second : MoveAway(s)) \/ SwapIn
    \/ Kill
=============================================================================
