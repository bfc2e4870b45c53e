-------------------------------- MODULE Cli --------------------------------
(***************************************************************************)
(* The command line of src/main.rs.  Every command is a process of its     *)
(* own.  Wallet, transaction and generate-block commands only compute and  *)
(* print; query and dev commands open a sled directory, build a Runtime on *)
(* it, answer from it and exit.  sled (external) locks a directory for one *)
(* process at a time and refuses a second one at once.  Processes run side *)
(* by side and may be killed anywhere; a program that embeds the library   *)
(* (external) may hold a directory for as long as it likes.                *)
(***************************************************************************)
EXTENDS Genesis

CONSTANTS
    Process,    \* the processes that run side by side, one command at a time
    NoProcess,  \* the owner of a free directory
    Dir,        \* the directories
    DataDir,    \* "./data", which every command but start opens
    KeyFile,    \* key files: the public key in each, None if it cannot be used
    Command,    \* the command lines
    Seed        \* what the directories may hold beforehand

ASSUME ProcessAssumption == NoProcess \notin Process
ASSUME DirAssumption == DataDir \in Dir

VARIABLES
    seed,       \* what each directory held to begin with
    disk,       \* what a process that opens it finds
    db,         \* the database its owner works on
    owner,      \* the process that has it open
    pc,         \* where each process is
    cmd,        \* the command it runs
    out         \* what it has printed

vars == <<seed, disk, db, owner, pc, cmd, out>>

-----------------------------------------------------------------------------
(* Commands.  An argument that does not parse is None.                     *)

Printed(value) == [status |-> "ok", value |-> value]
Error(what) == [status |-> what, value |-> None]
Nothing == [status |-> "none", value |-> None]

TransactionTypes == {"Transfer", "Deploy", "Call", "Data"}
QueryTypes == {"Block", "Account", "Storage", "Contract"}
OpensDb == QueryTypes \cup {"ChainState", "Start", "Embedding"}

DirOf(c) == IF c.type \in {"Start", "Embedding"} THEN c.dir ELSE DataDir

ASSUME CommandAssumption == \A c \in Command : DirOf(c) \in Dir

ASSUME SeedAssumption == \A s \in Seed : DOMAIN s = TreeNames

\* nonce 0, no hash, no signature
created(c) ==
    LET sender == KeyFile[c.key_file]
        zero_contract == ContractAddress(ZeroHash)
        make(recipient, payload) == UnsignedTransaction(sender, 0, recipient, payload, 0)
    IN  CASE c.type = "Transfer" -> make(WalletAddress(c.arg), TransferPayload(1))
          [] c.type = "Deploy" -> make(zero_contract, DeployPayload(c.arg))
          [] c.type = "Call" -> make(ContractAddress(c.arg), CallPayload)
          [] c.type = "Data" -> make(WalletAddress(sender), DataPayload)

transaction_command(c) ==
    IF KeyFile[c.key_file] = None \/ c.arg = None THEN Error("argument")
    ELSE Printed(created(c))

wallet_command(c) ==
    IF c.type = "Info" /\ KeyFile[c.key_file] = None THEN Error("argument")
    ELSE Printed("wallet")

\* what the runtime's getters answer on database d
found(value) == IF value = SerializationError THEN Error("storage") ELSE Printed(value)

answer(d, c) ==
    CASE c.type \in {"ChainState", "Start"} -> Printed(get_chain_state(d))
      [] c.type = "Block" -> found(get_block_by_height(d, c.arg))
      [] c.arg = None -> Error("argument")
      [] c.type = "Account" -> found(get_account(d, c.arg))
      [] c.type = "Storage" -> Printed(contract_storage_read(d, c.arg, InitPayloadKey))
      [] c.type = "Contract" -> Printed("empty")

-----------------------------------------------------------------------------
Init ==
    /\ seed \in [Dir -> Seed]
    /\ disk = seed
    /\ db = seed
    /\ owner = [d \in Dir |-> NoProcess]
    /\ pc = [p \in Process |-> "idle"]
    /\ cmd = [p \in Process |-> None]
    /\ out = [p \in Process |-> Nothing]

\* the process is started and its arguments are parsed
Launch(p, c) ==
    /\ pc[p] \in {"idle", "ended"}
    /\ cmd' = [cmd EXCEPT ![p] = c]
    /\ pc' = [pc EXCEPT ![p] = IF c.type \in OpensDb THEN "open" ELSE "compute"]
    /\ out' = [out EXCEPT ![p] = Nothing]
    /\ UNCHANGED <<seed, disk, db, owner>>

Exit(p, value) ==
    /\ pc' = [pc EXCEPT ![p] = "ended"]
    /\ out' = [out EXCEPT ![p] = value]
    /\ UNCHANGED <<seed, cmd>>

\* wallet, transaction and generate-block commands
Compute(p) ==
    /\ pc[p] = "compute"
    /\ Exit(p, CASE cmd[p].type \in {"Generate", "Info"} -> wallet_command(cmd[p])
                 [] cmd[p].type \in TransactionTypes -> transaction_command(cmd[p])
                 [] OTHER -> Printed("not yet implemented"))
    /\ UNCHANGED <<disk, db, owner>>

\* fault: a directory another process has open is opened again
Open_Shared(p) ==
    /\ pc[p] = "open"
    /\ owner' = [owner EXCEPT ![DirOf(cmd[p])] = p]
    /\ db' = [db EXCEPT ![DirOf(cmd[p])] = disk[DirOf(cmd[p])]]
    /\ pc' = [pc EXCEPT ![p] = IF cmd[p].type = "Embedding" THEN "holds" ELSE "new"]
    /\ UNCHANGED <<seed, disk, cmd, out>>

\* SledStorage::new
Open(p) ==
    /\ pc[p] = "open"
    /\ LET d == DirOf(cmd[p])
       IN  /\ owner[d] = NoProcess
           /\ owner' = [owner EXCEPT ![d] = p]
           /\ db' = [db EXCEPT ![d] = disk[d]]
    /\ pc' = [pc EXCEPT ![p] = IF cmd[p].type = "Embedding" THEN "holds" ELSE "new"]
    /\ UNCHANGED <<seed, disk, cmd, out>>

\* another process has the directory open
OpenFails(p) ==
    /\ pc[p] = "open"
    /\ owner[DirOf(cmd[p])] # NoProcess
    /\ Exit(p, Error("locked"))
    /\ UNCHANGED <<disk, db, owner>>

\* the owner of d lets go of it; what it wrote may not have been flushed
LetGo(d) ==
    /\ owner' = [owner EXCEPT ![d] = NoProcess]
    /\ disk' = [disk EXCEPT ![d] = db[d]] \/ UNCHANGED disk

\* Runtime::new, first the chain is initialised ...
InitializeChain(p) ==
    /\ pc[p] = "new"
    /\ db' = [db EXCEPT ![DirOf(cmd[p])] = initialize_chain(@)]
    /\ pc' = [pc EXCEPT ![p] = "read"]
    /\ UNCHANGED <<seed, disk, owner, cmd, out>>

\* ... then its state is read back
NewOk(p) ==
    /\ pc[p] = "read"
    /\ get_chain_state(db[DirOf(cmd[p])]) # None
    /\ pc' = [pc EXCEPT ![p] = "answer"]
    /\ UNCHANGED <<seed, disk, db, owner, cmd, out>>

\* fault: the missing chain state is not noticed
NewFails_Unnoticed(p) ==
    /\ pc[p] = "read"
    /\ get_chain_state(db[DirOf(cmd[p])]) = None
    /\ pc' = [pc EXCEPT ![p] = "answer"]
    /\ UNCHANGED <<seed, disk, db, owner, cmd, out>>

\* fault: the chain is initialised again until its state is found
NewFails_Retries(p) ==
    /\ pc[p] = "read"
    /\ get_chain_state(db[DirOf(cmd[p])]) = None
    /\ pc' = [pc EXCEPT ![p] = "new"]
    /\ UNCHANGED <<seed, disk, db, owner, cmd, out>>

\* it is not there: the command fails, with the genesis batch written
NewFails(p) ==
    /\ pc[p] = "read"
    /\ get_chain_state(db[DirOf(cmd[p])]) = None
    /\ Exit(p, Error("ChainInitializationError"))
    /\ LetGo(DirOf(cmd[p]))
    /\ UNCHANGED db

\* the rest of a command that has a runtime: answer from it and exit
Answer(p) ==
    /\ pc[p] = "answer"
    /\ Exit(p, answer(db[DirOf(cmd[p])], cmd[p]))
    /\ LetGo(DirOf(cmd[p]))
    /\ UNCHANGED db

EmbeddingEnds(p) ==
    /\ pc[p] = "holds"
    /\ Exit(p, Nothing)
    /\ LetGo(DirOf(cmd[p]))
    /\ UNCHANGED db

\* sled's background flush
Flush(d) ==
    /\ owner[d] # NoProcess
    /\ disk[d] # db[d]
    /\ disk' = [disk EXCEPT ![d] = db[d]]
    /\ UNCHANGED <<seed, db, owner, pc, cmd, out>>

\* a process is killed: the system drops its lock
Kill(p) ==
    /\ pc[p] \notin {"idle", "ended"}
    /\ Exit(p, Nothing)
    /\ owner' = [d \in Dir |-> IF owner[d] = p THEN NoProcess ELSE owner[d]]
    /\ UNCHANGED <<disk, db>>

-----------------------------------------------------------------------------
\* one run of main
Main(p) ==
    \/ Compute(p) \/ Open(p) \/ OpenFails(p)
    \/ InitializeChain(p) \/ NewOk(p) \/ NewFails(p) \/ Answer(p)

Next ==
    \/ \E p \in Process :
          \/ \E c \in Command : Launch(p, c)
          \/ Main(p) \/ EmbeddingEnds(p) \/ Kill(p)
    \/ \E d \in Dir : Flush(d)

Spec == Init /\ [][Next]_vars

\* The system runs every process that can run; an embedding program need not end.
FairMain(p) == WF_vars(Main(p))

FairSpec == Spec /\ \A p \in Process : FairMain(p)

-----------------------------------------------------------------------------
(* Properties.                                                             *)

\* A directory is open in exactly the process that is between SledStorage::new
\* and its exit, and a command that has not ended has printed nothing.
TypeOK ==
    /\ pc \in [Process -> {"idle", "compute", "open", "new", "read", "answer", "holds", "ended"}]
    /\ owner \in [Dir -> Process \cup {NoProcess}]
    /\ cmd \in [Process -> Command \cup {None}]
    /\ \A p \in Process : \A d \in Dir :
          owner[d] = p <=> pc[p] \in {"new", "read", "answer", "holds"} /\ DirOf(cmd[p]) = d
    /\ \A p \in Process : /\ pc[p] # "idle" => cmd[p] \in Command
                          /\ pc[p] # "ended" => out[p] = Nothing

WithGenesis(d) == [d EXCEPT !["default"] = tree_apply_batch(@, genesis_batch)]

\* However many commands run on a directory, one after the other or at once,
\* and wherever they are killed, the directory holds what it held beforehand,
\* or that with the genesis block, and only if it had no chain state.
InitializedAtMostOnce ==
    \A d \in Dir : \A content \in {disk[d], db[d]} :
        \/ content = seed[d]
        \/ get_chain_state(seed[d]) = None /\ content = WithGenesis(seed[d])

\* A command that opens a directory and is neither locked out nor killed prints
\* what the directory held before any command ran, in whatever order commands
\* ran since; and if that had no chain state it prints an error: no sequence of
\* commands, start included, makes an empty directory usable.
AnswersComeFromTheSeed ==
    \A p \in Process :
        (/\ pc[p] = "ended" /\ cmd[p].type \in OpensDb
         /\ out[p].status \notin {"none", "locked"}) =>
            LET s == seed[DirOf(cmd[p])]
            IN  out[p] = IF get_chain_state(s) = None THEN Error("ChainInitializationError")
                         ELSE answer(s, cmd[p])

\* the command is in main, and is not an embedding program at rest
UnderWay(p) == pc[p] \in {"compute", "open", "new", "read", "answer"}

NeverBlocked == \A p \in Process : UnderWay(p) => ENABLED <<Main(p)>>_vars

\* Every command comes to an end, even while another process, which may never
\* end, has its directory open: sled refuses, it does not wait, so a command
\* under way always has a next step, and none of them leads back.
EveryCommandEnds ==
    /\ []NeverBlocked
    /\ \A p \in Process : UnderWay(p) ~> pc[p] \in {"ended", "holds"}
=============================================================================
