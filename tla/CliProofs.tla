----------------------------- MODULE CliProofs -----------------------------
(***************************************************************************)
(* What any number of commands, run one after the other or at once and     *)
(* killed anywhere, do to the directories they open and can find in them.  *)
(***************************************************************************)
EXTENDS Cli, StorageApiProofs

-----------------------------------------------------------------------------
(* What is inductive.                                                      *)

Tables ==
    /\ seed \in [Dir -> Seed]
    /\ disk = [d \in Dir |-> disk[d]] /\ db = [d \in Dir |-> db[d]]
    /\ out = [p \in Process |-> out[p]]

\* commands that open a directory and commands that compute are kept apart, and
\* a command gets to its answer only if the directory had a chain state
RightPlace ==
    \A p \in Process :
        /\ pc[p] = "compute" => cmd[p].type \notin OpensDb
        /\ pc[p] \in {"open", "new", "read", "answer", "holds"} => cmd[p].type \in OpensDb
        /\ pc[p] = "answer" => get_chain_state(seed[DirOf(cmd[p])]) # None

IInv ==
    /\ TypeOK /\ Tables /\ RightPlace
    /\ InitializedAtMostOnce /\ AnswersComeFromTheSeed

-----------------------------------------------------------------------------
(* What a directory may hold: its seed, or that with the genesis batch.    *)

Content(s, x) == x = s \/ (get_chain_state(s) = None /\ x = WithGenesis(s))

LEMMA Contents ==
    InitializedAtMostOnce <=>
        \A d \in Dir : Content(seed[d], disk[d]) /\ Content(seed[d], db[d])
BY DEF InitializedAtMostOnce, Content

LEMMA GenesisIsApplied ==
    ASSUME NEW s
    PROVE  WithGenesis(s) = apply_batch(s, genesis_batch)
BY DEF WithGenesis, apply_batch

\* The genesis batch is not seen by any getter, so no answer depends on it.
LEMMA GenesisIsUnseen ==
    ASSUME NEW s, DOMAIN s = TreeNames, NEW x, Content(s, x)
    PROVE  /\ DOMAIN x = TreeNames
           /\ get_chain_state(x) = get_chain_state(s)
           /\ \A pk : get_account(x, pk) = get_account(s, pk)
           /\ \A c : answer(x, c) = answer(s, c)
<1>1. DOMAIN x = TreeNames /\ \A name \in TreeNames \ {"default"} : x[name] = s[name]
  <2>1. CASE x = s
    BY <2>1
  <2>2. CASE x = WithGenesis(s)
    BY <2>2, GenesisIsApplied, BatchStaysInDefault
  <2> QED
    BY <2>1, <2>2 DEF Content
<1>2. /\ x["chain_state"] = s["chain_state"] /\ x["accounts"] = s["accounts"]
      /\ x["blocks"] = s["blocks"] /\ x["contract_storage"] = s["contract_storage"]
  BY <1>1 DEF TreeNames
<1>3. /\ get_chain_state(x) = get_chain_state(s)
      /\ \A pk : get_account(x, pk) = get_account(s, pk)
      /\ \A h : get_block_by_height(x, h) = get_block_by_height(s, h)
      /\ \A cid, key : contract_storage_read(x, cid, key) = contract_storage_read(s, cid, key)
  BY <1>2, Zenon DEF get_chain_state, get_account, get_block_by_height, contract_storage_read
<1>4. \A c : answer(x, c) = answer(s, c)
  BY <1>3, Zenon DEF answer
<1> QED
  BY <1>1, <1>3, <1>4

\* The genesis batch applied twice is the genesis batch applied once.
LEMMA GenesisTwice ==
    ASSUME NEW s, DOMAIN s = TreeNames
    PROVE  WithGenesis(WithGenesis(s)) = WithGenesis(s)
<1> DEFINE t == s["default"]
           u == tree_apply_batch(t, genesis_batch)
           v == tree_apply_batch(u, genesis_batch)
<1>1. \A k \in DOMAIN genesis_batch : genesis_batch[k] # Deleted
  BY NotDeleted DEF genesis_batch
<1>2. /\ DOMAIN u = DOMAIN t \cup DOMAIN genesis_batch
      /\ \A k \in DOMAIN u : u[k] = IF k \in DOMAIN genesis_batch THEN genesis_batch[k] ELSE t[k]
  BY <1>1 DEF tree_apply_batch
<1>3. v = [k \in DOMAIN u \cup DOMAIN genesis_batch |->
             IF k \in DOMAIN genesis_batch THEN genesis_batch[k] ELSE u[k]]
  BY <1>1 DEF tree_apply_batch
<1>4. u = [k \in DOMAIN u |-> u[k]]
  BY DEF tree_apply_batch
<1> HIDE DEF u, v
<1>5. v = u
  BY <1>2, <1>3, <1>4
<1>6. WithGenesis(s) = [s EXCEPT !["default"] = u]
  BY DEF WithGenesis, u
<1>7. [s EXCEPT !["default"] = u]["default"] = u
  BY DEF TreeNames
<1>8. WithGenesis(WithGenesis(s)) = [[s EXCEPT !["default"] = u] EXCEPT !["default"] = v]
  BY <1>6, <1>7 DEF WithGenesis, v
<1> QED
  BY <1>5, <1>6, <1>8

\* initialize_chain on a directory that holds its seed, with or without genesis.
LEMMA InitializedOnce ==
    ASSUME NEW s, DOMAIN s = TreeNames, NEW x, Content(s, x)
    PROVE  Content(s, initialize_chain(x))
<1>1. get_chain_state(x) = get_chain_state(s)
  BY GenesisIsUnseen
<1>2. CASE get_chain_state(s) # None
  BY <1>1, <1>2 DEF initialize_chain
<1>3. CASE get_chain_state(s) = None
  <2>1. initialize_chain(x) = WithGenesis(x)
    BY <1>1, <1>3, GenesisIsApplied DEF initialize_chain
  <2>2. WithGenesis(x) = WithGenesis(s)
    BY GenesisTwice DEF Content
  <2> QED
    BY <1>3, <2>1, <2>2 DEF Content
<1> QED
  BY <1>2, <1>3

-----------------------------------------------------------------------------
(* The end of a command.                                                   *)

Holding == {"new", "read", "answer", "holds"}

\* what a command that ends with value has to have got right
EndsWell(p, value) ==
    cmd[p].type \in OpensDb /\ value.status \notin {"none", "locked"} =>
        LET s == seed[DirOf(cmd[p])]
        IN  value = IF get_chain_state(s) = None THEN Error("ChainInitializationError")
                    ELSE answer(s, cmd[p])

LEMMA SeedsAreTyped ==
    ASSUME Tables
    PROVE  \A d \in Dir : DOMAIN seed[d] = TreeNames
BY SeedAssumption DEF Tables

\* The process exits, printing value: it lets go of what it had open, and the
\* databases hold what they may hold.
LEMMA ExitStep ==
    ASSUME IInv, NEW p \in Process, NEW value, pc[p] \notin {"idle", "ended"}, Exit(p, value),
           owner' = [d \in Dir |-> IF owner[d] = p THEN NoProcess ELSE owner[d]],
           db' = db, disk' = [d \in Dir |-> disk'[d]],
           \A d \in Dir : disk'[d] \in {disk[d], db[d]}, EndsWell(p, value)
    PROVE  IInv'
<1>0. /\ pc' = [pc EXCEPT ![p] = "ended"] /\ out' = [out EXCEPT ![p] = value]
      /\ seed' = seed /\ cmd' = cmd
  BY DEF Exit
<1>1. /\ TypeOK /\ Tables /\ RightPlace
      /\ InitializedAtMostOnce /\ AnswersComeFromTheSeed
  BY DEF IInv
<1>2. /\ pc'[p] = "ended" /\ out'[p] = value
      /\ \A q \in Process : q # p => pc'[q] = pc[q] /\ out'[q] = out[q]
      /\ \A d \in Dir : owner'[d] = IF owner[d] = p THEN NoProcess ELSE owner[d]
  BY <1>0, <1>1 DEF TypeOK, Tables
<1>3. TypeOK'
  <2>1. pc' \in [Process -> {"idle", "compute", "open", "new", "read", "answer", "holds", "ended"}]
    BY <1>0, <1>1 DEF TypeOK
  <2>2. owner' \in [Dir -> Process \cup {NoProcess}]
    BY <1>1 DEF TypeOK
  <2>3. cmd' \in [Process -> Command \cup {None}]
    BY <1>0, <1>1 DEF TypeOK
  <2>4. ASSUME NEW q \in Process, NEW d \in Dir
        PROVE  owner'[d] = q <=> pc'[q] \in Holding /\ DirOf(cmd'[q]) = d
    <3>1. owner[d] = q <=> pc[q] \in Holding /\ DirOf(cmd[q]) = d
      BY <1>1 DEF TypeOK, Holding
    <3>2. CASE q = p
      BY <3>2, <1>2, ProcessAssumption DEF Holding
    <3>3. CASE q # p
      BY <3>1, <3>3, <1>0, <1>2, ProcessAssumption
    <3> QED
      BY <3>2, <3>3
  <2>5. ASSUME NEW q \in Process
        PROVE  (pc'[q] # "idle" => cmd'[q] \in Command) /\ (pc'[q] # "ended" => out'[q] = Nothing)
    BY <1>0, <1>1, <1>2 DEF TypeOK
  <2> QED
    BY <2>1, <2>2, <2>3, <2>4, <2>5 DEF TypeOK, Holding
<1>4. Tables'
  BY <1>0, <1>1 DEF Tables
<1>5. RightPlace'
  BY <1>0, <1>1, <1>2 DEF RightPlace
<1>6. InitializedAtMostOnce'
  BY <1>0, <1>1 DEF InitializedAtMostOnce
<1>7. AnswersComeFromTheSeed'
  <2> SUFFICES ASSUME NEW q \in Process, pc'[q] = "ended", cmd[q].type \in OpensDb,
                      out'[q].status \notin {"none", "locked"}
               PROVE  LET s == seed[DirOf(cmd[q])]
                      IN  out'[q] = IF get_chain_state(s) = None
                                    THEN Error("ChainInitializationError")
                                    ELSE answer(s, cmd[q])
    BY <1>0 DEF AnswersComeFromTheSeed
  <2>1. CASE q = p
    BY <2>1, <1>2 DEF EndsWell
  <2>2. CASE q # p
    BY <2>2, <1>1, <1>2 DEF AnswersComeFromTheSeed
  <2> QED
    BY <2>1, <2>2
<1> QED
  BY <1>3, <1>4, <1>5, <1>6, <1>7 DEF IInv

\* the directory of a process that has it open, and what LetGo does to it
LEMMA LettingGo ==
    ASSUME IInv, NEW p \in Process, pc[p] \in Holding, LetGo(DirOf(cmd[p])), db' = db
    PROVE  /\ owner' = [d \in Dir |-> IF owner[d] = p THEN NoProcess ELSE owner[d]]
           /\ disk' = [d \in Dir |-> disk'[d]]
           /\ \A d \in Dir : disk'[d] \in {disk[d], db[d]}
<1> DEFINE h == DirOf(cmd[p])
<1>1. /\ h \in Dir /\ \A d \in Dir : owner[d] = p <=> d = h
      /\ owner \in [Dir -> Process \cup {NoProcess}]
  BY CommandAssumption DEF IInv, TypeOK, Holding
<1>2. owner' = [owner EXCEPT ![h] = NoProcess]
  BY DEF LetGo
<1>3. disk' = [disk EXCEPT ![h] = db[h]] \/ disk' = disk
  BY DEF LetGo
<1>4. disk = [d \in Dir |-> disk[d]]
  BY DEF IInv, Tables
<1> HIDE DEF h
<1>5. owner' = [d \in Dir |-> IF owner[d] = p THEN NoProcess ELSE owner[d]]
  BY <1>1, <1>2
<1>6. DOMAIN disk = Dir
  BY <1>4
<1>7. /\ disk' = [d \in Dir |-> disk'[d]]
      /\ \A d \in Dir : disk'[d] \in {disk[d], db[d]}
  <2>1. CASE disk' = disk
    BY <2>1, <1>4
  <2>2. CASE disk' = [disk EXCEPT ![h] = db[h]]
    <3>1. disk' = [d \in Dir |-> IF d = h THEN db[h] ELSE disk[d]]
      BY <2>2, <1>6
    <3> QED
      BY <3>1
  <2> QED
    BY <1>3, <2>1, <2>2
<1> QED
  BY <1>5, <1>7

\* a process that has nothing open leaves the directories as they are
LEMMA NothingToLetGo ==
    ASSUME IInv, NEW p \in Process, pc[p] \notin Holding, UNCHANGED <<disk, db, owner>>
    PROVE  /\ owner' = [d \in Dir |-> IF owner[d] = p THEN NoProcess ELSE owner[d]]
           /\ disk' = [d \in Dir |-> disk'[d]]
           /\ \A d \in Dir : disk'[d] \in {disk[d], db[d]}
<1>1. \A d \in Dir : owner[d] # p
  BY DEF IInv, TypeOK, Holding
<1>2. owner = [d \in Dir |-> owner[d]] /\ disk = [d \in Dir |-> disk[d]]
  BY DEF IInv, TypeOK, Tables
<1> QED
  BY <1>1, <1>2

\* the content of the directory of a running command, as the getters see it
LEMMA OwnDirectory ==
    ASSUME IInv, NEW p \in Process, pc[p] # "idle"
    PROVE  LET d == DirOf(cmd[p])
           IN  /\ cmd[p] \in Command /\ d \in Dir /\ DOMAIN seed[d] = TreeNames
               /\ Content(seed[d], db[d]) /\ Content(seed[d], disk[d])
               /\ get_chain_state(db[d]) = get_chain_state(seed[d])
               /\ \A c : answer(db[d], c) = answer(seed[d], c)
<1> DEFINE d == DirOf(cmd[p])
<1>1. cmd[p] \in Command /\ d \in Dir
  BY CommandAssumption DEF IInv, TypeOK
<1>2. DOMAIN seed[d] = TreeNames
  BY <1>1, SeedsAreTyped DEF IInv
<1>3. Content(seed[d], db[d]) /\ Content(seed[d], disk[d])
  BY <1>1, Contents DEF IInv
<1> HIDE DEF d
<1> QED
  BY <1>1, <1>2, <1>3, GenesisIsUnseen DEF d

-----------------------------------------------------------------------------
(* Every step keeps the invariant.                                         *)

LEMMA ComputeStep == ASSUME IInv, NEW p \in Process, Compute(p) PROVE IInv'
<1>1. /\ pc[p] = "compute" /\ UNCHANGED <<disk, db, owner>>
      /\ cmd[p] \in Command /\ cmd[p].type \notin OpensDb
  BY DEF Compute, IInv, TypeOK, RightPlace
<1>2. PICK value : Exit(p, value)
  BY Zenon DEF Compute
<1>3. EndsWell(p, value)
  BY <1>1 DEF EndsWell
<1>4. pc[p] \notin Holding /\ pc[p] \notin {"idle", "ended"}
  BY <1>1 DEF Holding
<1> QED
  BY <1>1, <1>2, <1>3, <1>4, NothingToLetGo, ExitStep

\* values with a status that asks nothing of them
LEMMA Statuses ==
    /\ Nothing.status = "none"
    /\ \A what : Error(what).status = what
BY DEF Nothing, Error

LEMMA OpenFailsStep == ASSUME IInv, NEW p \in Process, OpenFails(p) PROVE IInv'
<1>1. pc[p] = "open" /\ Exit(p, Error("locked")) /\ UNCHANGED <<disk, db, owner>>
  BY DEF OpenFails
<1>2. EndsWell(p, Error("locked"))
  BY Statuses DEF EndsWell
<1>3. pc[p] \notin Holding /\ pc[p] \notin {"idle", "ended"}
  BY <1>1 DEF Holding
<1> QED
  BY <1>1, <1>2, <1>3, NothingToLetGo, ExitStep

LEMMA NewFailsStep == ASSUME IInv, NEW p \in Process, NewFails(p) PROVE IInv'
<1> DEFINE value == Error("ChainInitializationError")
           d == DirOf(cmd[p])
<1>1. /\ pc[p] = "read" /\ get_chain_state(db[d]) = None /\ Exit(p, value)
      /\ LetGo(d) /\ db' = db
  BY DEF NewFails
<1>2. get_chain_state(seed[d]) = None
  BY <1>1, OwnDirectory
<1>3. EndsWell(p, value)
  BY <1>2, Statuses DEF EndsWell
<1>4. pc[p] \in Holding /\ pc[p] \notin {"idle", "ended"}
  BY <1>1 DEF Holding
<1> QED
  BY <1>1, <1>3, <1>4, LettingGo, ExitStep

LEMMA AnswerStep == ASSUME IInv, NEW p \in Process, Answer(p) PROVE IInv'
<1> DEFINE d == DirOf(cmd[p])
           value == answer(db[d], cmd[p])
<1>1. pc[p] = "answer" /\ Exit(p, value) /\ LetGo(d) /\ db' = db
  BY DEF Answer
<1>2. value = answer(seed[d], cmd[p])
  BY <1>1, OwnDirectory
<1>3. get_chain_state(seed[d]) # None /\ cmd[p].type \in OpensDb
  BY <1>1 DEF IInv, RightPlace
<1>4. cmd[p].type \notin TransactionTypes
  BY <1>3 DEF OpensDb, QueryTypes, TransactionTypes
<1>5. EndsWell(p, value)
  BY <1>2, <1>3, <1>4 DEF EndsWell
<1>6. pc[p] \in Holding /\ pc[p] \notin {"idle", "ended"}
  BY <1>1 DEF Holding
<1> QED
  BY <1>1, <1>5, <1>6, LettingGo, ExitStep

LEMMA EmbeddingEndsStep == ASSUME IInv, NEW p \in Process, EmbeddingEnds(p) PROVE IInv'
<1>1. pc[p] = "holds" /\ Exit(p, Nothing) /\ LetGo(DirOf(cmd[p])) /\ db' = db
  BY DEF EmbeddingEnds
<1>2. EndsWell(p, Nothing)
  BY Statuses DEF EndsWell
<1>3. pc[p] \in Holding /\ pc[p] \notin {"idle", "ended"}
  BY <1>1 DEF Holding
<1> QED
  BY <1>1, <1>2, <1>3, LettingGo, ExitStep

LEMMA KillStep == ASSUME IInv, NEW p \in Process, Kill(p) PROVE IInv'
<1>1. /\ pc[p] \notin {"idle", "ended"} /\ Exit(p, Nothing) /\ disk' = disk /\ db' = db
      /\ owner' = [d \in Dir |-> IF owner[d] = p THEN NoProcess ELSE owner[d]]
  BY DEF Kill
<1>2. EndsWell(p, Nothing)
  BY Statuses DEF EndsWell
<1>3. disk' = [d \in Dir |-> disk'[d]] /\ \A d \in Dir : disk'[d] \in {disk[d], db[d]}
  BY <1>1 DEF IInv, Tables
<1> QED
  BY <1>1, <1>2, <1>3, ExitStep

\* A command goes on: process p, with command c, gets to another place, having
\* printed nothing; it has its directory open if that place is among Holding.
GoingOn(p, c, to) ==
    /\ seed' = seed
    /\ pc' = [pc EXCEPT ![p] = to] /\ cmd' = [cmd EXCEPT ![p] = c]
    /\ out' = [out EXCEPT ![p] = Nothing]
    /\ owner' \in [Dir -> Process \cup {NoProcess}]
    /\ \A q \in Process : \A d \in Dir :
          owner'[d] = q <=> IF q = p THEN to \in Holding /\ DirOf(c) = d ELSE owner[d] = q
    /\ disk' = [d \in Dir |-> disk'[d]] /\ db' = [d \in Dir |-> db'[d]]
    /\ \A d \in Dir : Content(seed[d], disk'[d]) /\ Content(seed[d], db'[d])
    /\ to \in {"compute", "open", "new", "read", "answer", "holds"}
    /\ to = "compute" <=> c.type \notin OpensDb
    /\ to = "answer" => get_chain_state(seed[DirOf(c)]) # None

LEMMA GoesOn ==
    ASSUME IInv, NEW p \in Process, NEW c \in Command, NEW to, GoingOn(p, c, to)
    PROVE  IInv'
<1> USE DEF GoingOn
<1>1. /\ TypeOK /\ Tables /\ RightPlace
      /\ InitializedAtMostOnce /\ AnswersComeFromTheSeed
  BY DEF IInv
<1>2. /\ pc'[p] = to /\ cmd'[p] = c /\ out'[p] = Nothing
      /\ \A q \in Process : q # p => pc'[q] = pc[q] /\ cmd'[q] = cmd[q] /\ out'[q] = out[q]
  BY <1>1 DEF TypeOK, Tables
<1>3. TypeOK'
  <2>1. pc' \in [Process -> {"idle", "compute", "open", "new", "read", "answer", "holds", "ended"}]
    BY <1>1 DEF TypeOK
  <2>2. cmd' \in [Process -> Command \cup {None}]
    BY <1>1 DEF TypeOK
  <2>3. ASSUME NEW q \in Process, NEW d \in Dir
        PROVE  owner'[d] = q <=> pc'[q] \in Holding /\ DirOf(cmd'[q]) = d
    <3>1. owner[d] = q <=> pc[q] \in Holding /\ DirOf(cmd[q]) = d
      BY <1>1 DEF TypeOK, Holding
    <3>2. CASE q = p
      BY <3>2, <1>2
    <3>3. CASE q # p
      BY <3>1, <3>3, <1>2
    <3> QED
      BY <3>2, <3>3
  <2>4. ASSUME NEW q \in Process
        PROVE  (pc'[q] # "idle" => cmd'[q] \in Command) /\ (pc'[q] # "ended" => out'[q] = Nothing)
    BY <1>1, <1>2 DEF TypeOK
  <2> QED
    BY <2>1, <2>2, <2>3, <2>4 DEF TypeOK, Holding
<1>4. Tables'
  BY <1>1 DEF Tables
<1>5. RightPlace'
  <2> SUFFICES ASSUME NEW q \in Process
               PROVE  /\ pc'[q] = "compute" => cmd'[q].type \notin OpensDb
                      /\ pc'[q] \in {"open", "new", "read", "answer", "holds"} =>
                            cmd'[q].type \in OpensDb
                      /\ pc'[q] = "answer" => get_chain_state(seed[DirOf(cmd'[q])]) # None
    BY DEF RightPlace
  <2>1. CASE q = p
    BY <2>1, <1>2
  <2>2. CASE q # p
    BY <2>2, <1>1, <1>2 DEF RightPlace
  <2> QED
    BY <2>1, <2>2
<1>6. InitializedAtMostOnce'
  BY DEF InitializedAtMostOnce, Content
<1>7. AnswersComeFromTheSeed'
  <2> SUFFICES ASSUME NEW q \in Process, pc'[q] = "ended", cmd'[q].type \in OpensDb,
                      out'[q].status \notin {"none", "locked"}
               PROVE  LET s == seed[DirOf(cmd'[q])]
                      IN  out'[q] = IF get_chain_state(s) = None
                                    THEN Error("ChainInitializationError")
                                    ELSE answer(s, cmd'[q])
    BY DEF AnswersComeFromTheSeed
  <2>1. q # p
    BY <1>2
  <2> QED
    BY <2>1, <1>1, <1>2 DEF AnswersComeFromTheSeed
<1> QED
  BY <1>3, <1>4, <1>5, <1>6, <1>7 DEF IInv

\* the directories and the owners of a state, as GoesOn wants them
LEMMA Standing ==
    ASSUME IInv
    PROVE  /\ owner \in [Dir -> Process \cup {NoProcess}]
           /\ disk = [d \in Dir |-> disk[d]] /\ db = [d \in Dir |-> db[d]]
           /\ \A d \in Dir : Content(seed[d], disk[d]) /\ Content(seed[d], db[d])
           /\ \A q \in Process : \A d \in Dir :
                 owner[d] = q <=> pc[q] \in Holding /\ DirOf(cmd[q]) = d
           /\ \A q \in Process :
                 pc[q] \notin {"idle", "ended"} =>
                    /\ cmd[q] \in Command /\ out = [out EXCEPT ![q] = Nothing]
                    /\ cmd = [cmd EXCEPT ![q] = cmd[q]]
<1>1. \A d \in Dir : Content(seed[d], disk[d]) /\ Content(seed[d], db[d])
  BY Contents DEF IInv
<1>2. out = [q \in Process |-> out[q]] /\ cmd \in [Process -> Command \cup {None}]
  BY DEF IInv, TypeOK, Tables
<1>3. ASSUME NEW q \in Process, pc[q] \notin {"idle", "ended"}
      PROVE  /\ cmd[q] \in Command /\ out = [out EXCEPT ![q] = Nothing]
             /\ cmd = [cmd EXCEPT ![q] = cmd[q]]
  <2>1. cmd[q] \in Command /\ out[q] = Nothing
    BY <1>3 DEF IInv, TypeOK
  <2> QED
    BY <2>1, <1>2
<1> QED
  BY <1>1, <1>3 DEF IInv, TypeOK, Tables, Holding

LEMMA LaunchStep ==
    ASSUME IInv, NEW p \in Process, NEW c \in Command, Launch(p, c) PROVE IInv'
<1> DEFINE to == IF c.type \in OpensDb THEN "open" ELSE "compute"
<1>1. /\ pc[p] \in {"idle", "ended"} /\ cmd' = [cmd EXCEPT ![p] = c]
      /\ pc' = [pc EXCEPT ![p] = to] /\ out' = [out EXCEPT ![p] = Nothing]
      /\ seed' = seed /\ disk' = disk /\ db' = db /\ owner' = owner
  BY DEF Launch
<1>2. /\ to \in {"compute", "open", "new", "read", "answer", "holds"}
      /\ to = "compute" <=> c.type \notin OpensDb
      /\ to # "answer" /\ to \notin Holding
  BY DEF Holding
<1> HIDE DEF to
<1>3. \A q \in Process : \A d \in Dir :
         owner'[d] = q <=> IF q = p THEN to \in Holding /\ DirOf(c) = d ELSE owner[d] = q
  BY <1>1, <1>2, Standing DEF Holding
<1>4. /\ disk' = [d \in Dir |-> disk'[d]] /\ db' = [d \in Dir |-> db'[d]]
      /\ owner' \in [Dir -> Process \cup {NoProcess}]
      /\ \A d \in Dir : Content(seed[d], disk'[d]) /\ Content(seed[d], db'[d])
  BY <1>1, Standing
<1>5. to = "answer" => get_chain_state(seed[DirOf(c)]) # None
  BY <1>2
<1>6. /\ seed' = seed /\ pc' = [pc EXCEPT ![p] = to] /\ cmd' = [cmd EXCEPT ![p] = c]
      /\ out' = [out EXCEPT ![p] = Nothing]
  BY <1>1
<1>7. GoingOn(p, c, to)
  BY <1>2, <1>3, <1>4, <1>5, <1>6 DEF GoingOn
<1> QED
  BY <1>7, GoesOn

LEMMA OpenStep == ASSUME IInv, NEW p \in Process, Open(p) PROVE IInv'
<1> DEFINE c == cmd[p]
           h == DirOf(c)
           to == IF c.type = "Embedding" THEN "holds" ELSE "new"
<1>1. /\ pc[p] = "open" /\ owner[h] = NoProcess
      /\ owner' = [owner EXCEPT ![h] = p] /\ db' = [db EXCEPT ![h] = disk[h]]
      /\ pc' = [pc EXCEPT ![p] = to]
      /\ seed' = seed /\ disk' = disk /\ cmd' = cmd /\ out' = out
  BY DEF Open
<1>2. /\ to \in {"compute", "open", "new", "read", "answer", "holds"}
      /\ to # "answer" /\ to # "compute" /\ to \in Holding
  BY DEF Holding
<1>3. c \in Command /\ h \in Dir /\ c.type \in OpensDb
  BY <1>1, OwnDirectory DEF IInv, RightPlace
<1> HIDE DEF c, h, to
<1>4. /\ owner' \in [Dir -> Process \cup {NoProcess}]
      /\ owner'[h] = p /\ \A d \in Dir : d # h => owner'[d] = owner[d]
  BY <1>1, <1>3, Standing
<1>5. \A d \in Dir : owner[d] # p
  BY <1>1, Standing DEF Holding
<1>6. ASSUME NEW q \in Process, NEW d \in Dir
      PROVE  owner'[d] = q <=> IF q = p THEN to \in Holding /\ DirOf(c) = d ELSE owner[d] = q
  <2>1. CASE d = h
    BY <2>1, <1>1, <1>2, <1>4, ProcessAssumption DEF h
  <2>2. CASE d # h
    BY <2>2, <1>2, <1>4, <1>5 DEF h
  <2> QED
    BY <2>1, <2>2
<1>7. db' = [d \in Dir |-> IF d = h THEN disk[d] ELSE db[d]]
  BY <1>1, <1>3, Standing
<1>8. /\ db' = [d \in Dir |-> db'[d]]
      /\ \A d \in Dir : Content(seed[d], disk'[d]) /\ Content(seed[d], db'[d])
  BY <1>1, <1>7, Standing
<1>9. cmd' = [cmd EXCEPT ![p] = c] /\ out' = [out EXCEPT ![p] = Nothing]
  BY <1>1, Standing DEF c
<1>10. disk' = [d \in Dir |-> disk'[d]]
  BY <1>1, Standing
<1>11. /\ to = "compute" <=> c.type \notin OpensDb
       /\ to = "answer" => get_chain_state(seed[DirOf(c)]) # None
  BY <1>2, <1>3
<1>12. seed' = seed /\ pc' = [pc EXCEPT ![p] = to]
  BY <1>1
<1>13. GoingOn(p, c, to)
  BY <1>2, <1>3, <1>4, <1>6, <1>8, <1>9, <1>10, <1>11, <1>12 DEF GoingOn
<1> QED
  BY <1>13, <1>3, GoesOn

LEMMA InitializeChainStep == ASSUME IInv, NEW p \in Process, InitializeChain(p) PROVE IInv'
<1> DEFINE c == cmd[p]
           h == DirOf(c)
<1>1. /\ pc[p] = "new" /\ db' = [db EXCEPT ![h] = initialize_chain(db[h])]
      /\ pc' = [pc EXCEPT ![p] = "read"]
      /\ seed' = seed /\ disk' = disk /\ owner' = owner /\ cmd' = cmd /\ out' = out
  BY DEF InitializeChain
<1>2. c \in Command /\ h \in Dir /\ c.type \in OpensDb /\ DOMAIN seed[h] = TreeNames
  BY <1>1, OwnDirectory DEF IInv, RightPlace
<1>3. Content(seed[h], initialize_chain(db[h]))
  BY <1>1, <1>2, OwnDirectory, InitializedOnce
<1> HIDE DEF c, h
<1>4. db' = [d \in Dir |-> IF d = h THEN initialize_chain(db[h]) ELSE db[d]]
  BY <1>1, <1>2, Standing
<1>5. /\ db' = [d \in Dir |-> db'[d]]
      /\ \A d \in Dir : Content(seed[d], disk'[d]) /\ Content(seed[d], db'[d])
  BY <1>1, <1>3, <1>4, Standing
<1>6. cmd' = [cmd EXCEPT ![p] = c] /\ out' = [out EXCEPT ![p] = Nothing]
  BY <1>1, Standing DEF c
<1>7. \A q \in Process : \A d \in Dir :
         owner'[d] = q <=> IF q = p THEN "read" \in Holding /\ DirOf(c) = d ELSE owner[d] = q
  BY <1>1, Standing DEF Holding, c
<1>8. disk' = [d \in Dir |-> disk'[d]] /\ owner' \in [Dir -> Process \cup {NoProcess}]
  BY <1>1, Standing
<1> DEFINE to == "read"
<1>9. /\ to \in {"compute", "open", "new", "read", "answer", "holds"}
      /\ to = "compute" <=> c.type \notin OpensDb
      /\ to = "answer" => get_chain_state(seed[DirOf(c)]) # None
      /\ pc' = [pc EXCEPT ![p] = to]
      /\ \A q \in Process : \A d \in Dir :
            owner'[d] = q <=> IF q = p THEN to \in Holding /\ DirOf(c) = d ELSE owner[d] = q
  BY <1>1, <1>2, <1>7
<1> HIDE DEF to
<1>10. seed' = seed
  BY <1>1
<1>11. GoingOn(p, c, to)
  BY <1>2, <1>5, <1>6, <1>8, <1>9, <1>10 DEF GoingOn
<1> QED
  BY <1>11, <1>2, GoesOn

LEMMA NewOkStep == ASSUME IInv, NEW p \in Process, NewOk(p) PROVE IInv'
<1> DEFINE c == cmd[p]
           h == DirOf(c)
<1>1. /\ pc[p] = "read" /\ get_chain_state(db[h]) # None
      /\ pc' = [pc EXCEPT ![p] = "answer"]
      /\ seed' = seed /\ disk' = disk /\ db' = db /\ owner' = owner /\ cmd' = cmd /\ out' = out
  BY DEF NewOk
<1>2. c \in Command /\ c.type \in OpensDb
  BY <1>1, OwnDirectory DEF IInv, RightPlace
<1>3. get_chain_state(seed[h]) # None
  BY <1>1, OwnDirectory
<1> HIDE DEF c
<1>4. cmd' = [cmd EXCEPT ![p] = c] /\ out' = [out EXCEPT ![p] = Nothing]
  BY <1>1, Standing DEF c
<1>5. \A q \in Process : \A d \in Dir :
         owner'[d] = q <=> IF q = p THEN "answer" \in Holding /\ DirOf(c) = d ELSE owner[d] = q
  BY <1>1, Standing DEF Holding, c
<1>6. /\ disk' = [d \in Dir |-> disk'[d]] /\ db' = [d \in Dir |-> db'[d]]
      /\ owner' \in [Dir -> Process \cup {NoProcess}]
      /\ \A d \in Dir : Content(seed[d], disk'[d]) /\ Content(seed[d], db'[d])
  BY <1>1, Standing
<1>7. GoingOn(p, c, "answer")
  BY <1>1, <1>2, <1>3, <1>4, <1>5, <1>6 DEF GoingOn
<1> QED
  BY <1>7, <1>2, GoesOn

\* Flush and stuttering: only disk changes, to something db holds.
LEMMA FlushStep ==
    ASSUME IInv, UNCHANGED <<seed, db, owner, pc, cmd, out>>,
           (\E d \in Dir : disk' = [disk EXCEPT ![d] = db[d]]) \/ disk' = disk
    PROVE  IInv'
<1>1. disk' = [d \in Dir |-> disk'[d]] /\ \A d \in Dir : disk'[d] \in {disk[d], db[d]}
  <2>1. CASE disk' = disk
    BY <2>1, Standing
  <2>2. CASE \E d \in Dir : disk' = [disk EXCEPT ![d] = db[d]]
    <3>1. PICK h \in Dir : disk' = [disk EXCEPT ![h] = db[h]]
      BY <2>2
    <3>2. disk' = [d \in Dir |-> IF d = h THEN db[d] ELSE disk[d]]
      BY <3>1, Standing
    <3> QED
      BY <3>2
  <2> QED
    BY <2>1, <2>2
<1>2. InitializedAtMostOnce'
  BY <1>1 DEF InitializedAtMostOnce, IInv
<1>3. TypeOK' /\ RightPlace' /\ AnswersComeFromTheSeed'
  BY DEF IInv, TypeOK, RightPlace, AnswersComeFromTheSeed
<1>4. Tables'
  BY <1>1 DEF IInv, Tables
<1> QED
  BY <1>2, <1>3, <1>4 DEF IInv

-----------------------------------------------------------------------------
(* The theorems.                                                           *)

\* The invariant holds of every run of any number of commands.
THEOREM Invariance == Spec => []IInv
<1>1. Init => IInv
  <2> SUFFICES ASSUME Init PROVE IInv
    OBVIOUS
  <2>1. TypeOK
    BY ProcessAssumption DEF Init, TypeOK
  <2>2. Tables
    BY DEF Init, Tables
  <2>3. RightPlace /\ AnswersComeFromTheSeed
    BY DEF Init, RightPlace, AnswersComeFromTheSeed
  <2>4. InitializedAtMostOnce
    BY DEF Init, InitializedAtMostOnce
  <2> QED
    BY <2>1, <2>2, <2>3, <2>4 DEF IInv
<1>2. IInv /\ [Next]_vars => IInv'
  <2> SUFFICES ASSUME IInv, [Next]_vars PROVE IInv'
    OBVIOUS
  <2>1. ASSUME NEW p \in Process, NEW c \in Command, Launch(p, c) PROVE IInv'
    BY <2>1, LaunchStep
  <2>2. ASSUME NEW p \in Process, Main(p) PROVE IInv'
    BY <2>2, ComputeStep, OpenStep, OpenFailsStep, InitializeChainStep, NewOkStep,
       NewFailsStep, AnswerStep DEF Main
  <2>3. ASSUME NEW p \in Process, EmbeddingEnds(p) \/ Kill(p) PROVE IInv'
    BY <2>3, EmbeddingEndsStep, KillStep
  <2>4. ASSUME NEW d \in Dir, Flush(d) PROVE IInv'
    BY <2>4, FlushStep DEF Flush
  <2>5. CASE UNCHANGED vars
    BY <2>5, FlushStep DEF vars
  <2> QED
    BY <2>1, <2>2, <2>3, <2>4, <2>5 DEF Next
<1> QED
  BY <1>1, <1>2, PTL DEF Spec

\* A directory is open in exactly the process that is between opening it and
\* its exit, for any number of processes and directories.
THEOREM TypeCorrect == Spec => []TypeOK
<1>1. IInv => TypeOK
  BY DEF IInv
<1> QED
  BY <1>1, Invariance, PTL

\* initialize_chain, which Runtime::new calls in every command, adds the genesis
\* block to a directory at most once, and never to one with a chain state.
THEOREM GenesisAtMostOnce == Spec => []InitializedAtMostOnce
<1>1. IInv => InitializedAtMostOnce
  BY DEF IInv
<1> QED
  BY <1>1, Invariance, PTL

\* What a command that has a runtime prints is what the directory held before
\* any command ran; with no chain state in it, it is an error.
THEOREM AnswersAreTheSeeds == Spec => []AnswersComeFromTheSeed
<1>1. IInv => AnswersComeFromTheSeed
  BY DEF IInv
<1> QED
  BY <1>1, Invariance, PTL

-----------------------------------------------------------------------------
(* Every command ends.                                                     *)

Out(p) == pc[p] \in {"ended", "holds"}

\* The next line of main, or its end: what the step at a line leads to.
Onward(p) ==
    \/ Out(p)'
    \/ pc[p] = "open" /\ pc'[p] = "new"
    \/ pc[p] = "new" /\ pc'[p] = "read"
    \/ pc[p] = "read" /\ pc'[p] = "answer"

\* The step a command takes always leads on.
LEMMA MainLeadsOn ==
    ASSUME NEW p \in Process, IInv, Main(p)
    PROVE  Onward(p)
<1>1. pc \in [Process -> {"idle", "compute", "open", "new", "read", "answer", "holds", "ended"}]
  BY DEF IInv, TypeOK
<1> QED
  BY <1>1 DEF Onward, Out, Main, Compute, Open, OpenFails, InitializeChain, NewOk, NewFails,
              Answer, Exit

\* A command stays at a line until it takes the step there or is killed; no
\* other process and no flush moves it.
LEMMA StaysOrLeadsOn ==
    ASSUME NEW p \in Process, IInv, [Next]_vars, UnderWay(p)
    PROVE  pc'[p] = pc[p] \/ Onward(p)
<1>1. pc \in [Process -> {"idle", "compute", "open", "new", "read", "answer", "holds", "ended"}]
  BY DEF IInv, TypeOK
<1>2. CASE UNCHANGED vars
  BY <1>2 DEF vars
<1>3. ASSUME NEW d \in Dir, Flush(d)
      PROVE  pc'[p] = pc[p]
  BY <1>3 DEF Flush
<1>4. ASSUME NEW q \in Process,
             (\E c \in Command : Launch(q, c)) \/ EmbeddingEnds(q) \/ Kill(q)
      PROVE  pc'[p] = pc[p] \/ Out(p)'
  BY <1>1, <1>4 DEF UnderWay, Out, Launch, EmbeddingEnds, Kill, Exit
<1>5. ASSUME NEW q \in Process, Main(q), q # p
      PROVE  pc'[p] = pc[p]
  BY <1>1, <1>5 DEF Main, Compute, Open, OpenFails, InitializeChain, NewOk, NewFails, Answer,
                    Exit
<1>6. Main(p) => Onward(p)
  BY MainLeadsOn
<1>7. Out(p)' => Onward(p)
  BY DEF Onward
<1>8. ASSUME NEW q \in Process, Main(q)
      PROVE  pc'[p] = pc[p] \/ Onward(p)
  BY <1>5, <1>6, <1>8
<1> QED
  BY <1>2, <1>3, <1>4, <1>7, <1>8, Zenon DEF Next

\* One command: answer, read, new, open and compute each lead on.
LEMMA CommandEnds ==
    ASSUME NEW p \in Process
    PROVE  Spec /\ FairMain(p) /\ []NeverBlocked => (UnderWay(p) ~> Out(p))
<1> DEFINE At(l) == pc[p] = l
<1>1. NeverBlocked => (UnderWay(p) => ENABLED <<Main(p)>>_vars)
  BY DEF NeverBlocked
<1>2. UnderWay(p) <=> At("compute") \/ At("open") \/ At("new") \/ At("read") \/ At("answer")
  BY DEF UnderWay
<1>3. IInv /\ [Next]_vars /\ At("answer") => At("answer")' \/ Out(p)'
  BY <1>2, StaysOrLeadsOn DEF Onward
<1>4. IInv /\ At("answer") /\ <<Main(p)>>_vars => Out(p)'
  BY <1>2, MainLeadsOn DEF Onward
<1>5. IInv /\ [Next]_vars /\ At("read") => At("read")' \/ At("answer")' \/ Out(p)'
  BY <1>2, StaysOrLeadsOn DEF Onward
<1>6. IInv /\ At("read") /\ <<Main(p)>>_vars => At("answer")' \/ Out(p)'
  BY <1>2, MainLeadsOn DEF Onward
<1>7. IInv /\ [Next]_vars /\ At("new") => At("new")' \/ At("read")' \/ Out(p)'
  BY <1>2, StaysOrLeadsOn DEF Onward
<1>8. IInv /\ At("new") /\ <<Main(p)>>_vars => At("read")' \/ Out(p)'
  BY <1>2, MainLeadsOn DEF Onward
<1>9. IInv /\ [Next]_vars /\ At("open") => At("open")' \/ At("new")' \/ Out(p)'
  BY <1>2, StaysOrLeadsOn DEF Onward
<1>10. IInv /\ At("open") /\ <<Main(p)>>_vars => At("new")' \/ Out(p)'
  BY <1>2, MainLeadsOn DEF Onward
<1>11. IInv /\ [Next]_vars /\ At("compute") => At("compute")' \/ Out(p)'
  BY <1>2, StaysOrLeadsOn DEF Onward
<1>12. IInv /\ At("compute") /\ <<Main(p)>>_vars => Out(p)'
  BY <1>2, MainLeadsOn DEF Onward
<1> HIDE DEF At
<1> QED
  BY <1>1, <1>2, <1>3, <1>4, <1>5, <1>6, <1>7, <1>8, <1>9, <1>10, <1>11, <1>12, Invariance, PTL
     DEF Spec, FairMain

\* Every command comes to an end, however many processes run and whoever holds
\* its directory, if the system runs every process that can run and no command
\* under way is blocked, the part of the property about ENABLED, which the cli
\* run checks.
THEOREM CommandsEnd == FairSpec /\ []NeverBlocked => EveryCommandEnds
<1> SUFFICES ASSUME NEW p \in Process
             PROVE  FairSpec /\ []NeverBlocked => (UnderWay(p) ~> Out(p))
  BY Zenon DEF EveryCommandEnds, Out
<1>1. FairSpec => Spec /\ FairMain(p)
  BY Zenon DEF FairSpec
<1>2. Spec /\ FairMain(p) /\ []NeverBlocked => (UnderWay(p) ~> Out(p))
  BY CommandEnds, Zenon
<1> QED
  BY <1>1, <1>2, PTL
=============================================================================
