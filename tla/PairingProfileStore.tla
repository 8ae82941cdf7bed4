-------------------------- MODULE PairingProfileStore --------------------------
(***************************************************************************)
(* The file of a pairing profile (swbt/transport/_pairing_profile.py) and  *)
(* the key store that Bumble reads and writes in it                        *)
(* (swbt/transport/_bumble_key_store.py), used by several processes.       *)
(*                                                                         *)
(* No coroutine of the key store suspends, so one process does one thing   *)
(* at a time; between processes every file operation is a step.  Processes *)
(* are killed and the power fails between any two steps.  A file is what   *)
(* it holds and whether that is on the disk; the name of the profile is on *)
(* the disk some time after it was linked or replaced (no directory is     *)
(* synced).  Files fail to be written when the disk is full.               *)
(***************************************************************************)
EXTENDS Naturals, FiniteSets

CONSTANTS
    Processes,      \* processes that use the same profile path
    Adapter,        \* the address of each process's adapter
    Addresses,      \* addresses, the namespaces of the key store
    Locals,         \* the local addresses that profiles are created with
    Kinds,          \* kinds of controllers
    Peers,          \* hosts
    MaxOps,         \* bound: number of operations
    MaxCrashes      \* bound: number of kills and power failures

(* The identity of a profile whose local_address is None.                  *)
CONSTANT AdapterDefault
(* No file.                                                                *)
CONSTANT None

Identities == Addresses \cup {AdapterDefault}
KeyStores == [Addresses -> SUBSET Peers]
Profiles == [identity : Identities, kind : Kinds, keys : KeyStores]
(* What a file holds whose data never reached the disk.                    *)
Torn == [torn |-> TRUE]
Files == [data : Profiles \cup {Torn}, synced : BOOLEAN]

ASSUME StoreAssumption ==
    /\ Adapter \in [Processes -> Addresses]
    /\ Locals \subseteq Identities
    /\ AdapterDefault \notin Addresses
    /\ None \notin Files
    /\ MaxOps \in Nat /\ MaxCrashes \in Nat

VARIABLES
    target,     \* the file at the profile path
    durable,    \* the file the disk has under that name
    temp,       \* the temporary file of each process
    proc,       \* what each process does
    versions,   \* history: every profile that was linked or replaced
    fresh,      \* history: whether no other process has saved since the key
                \* store of this one loaded the keys
    spent       \* what the bounds count

vars == <<target, durable, temp, proc, versions, fresh, spent>>

(* A process that does nothing; opened is the profile its controller has.  *)
Idle == [at |-> "idle", opened |-> None, keys |-> None, result |-> None]

(* A profile with the keys of two peers in one namespace can be loaded.    *)
Init ==
    /\ target \in {None} \cup [data : {[identity |-> AdapterDefault, kind |-> k,
                                        keys |-> [a \in Addresses |-> Peers]] : k \in Kinds},
                               synced : {TRUE}]
    /\ durable = target
    /\ temp = [p \in Processes |-> None]
    /\ proc = [p \in Processes |-> Idle]
    /\ versions = IF target = None THEN {} ELSE {target.data}
    /\ fresh = [p \in Processes |-> TRUE]
    /\ spent = [ops |-> 0, crashes |-> 0]

-----------------------------------------------------------------------------
(* load(): None if the file is missing or is not a profile.                *)
Loaded == IF target = None \/ target.data = Torn THEN None ELSE target.data

(* The namespace of the key store that the transport of p has.             *)
Namespace(p) ==
    IF proc[p].opened.identity = AdapterDefault THEN Adapter[p] ELSE proc[p].opened.identity

(* _require_matching_identity() for the key store of p.                    *)
Matching(p, profile) == profile # None /\ profile.identity = proc[p].opened.identity

Goes(p, at) == proc' = [proc EXCEPT ![p].at = at]

(* The operation of p ends, or raises; the controller stays open.          *)
Ends(p) == proc' = [proc EXCEPT ![p] = [Idle EXCEPT !.opened = proc[p].opened]]

(* create_profile() or open() of p fails: the controller is closed, and    *)
(* the profile stays where it is.                                          *)
Closes(p) == proc' = [proc EXCEPT ![p] = Idle]

Counts == spent' = [spent EXCEPT !.ops = @ + 1]

-----------------------------------------------------------------------------
(* create_profile() up to the temporary file.                              *)
CreateNew(p, id, kind) ==
    /\ proc[p] = Idle /\ spent.ops < MaxOps
    /\ LET profile == [identity |-> id, kind |-> kind, keys |-> [a \in Addresses |-> {}]]
       IN  proc' = [proc EXCEPT ![p] = [at |-> "create", opened |-> profile,
                                        keys |-> profile.keys, result |-> profile]]
    /\ Counts
    /\ UNCHANGED <<target, durable, temp, versions, fresh>>

(* open() loads the profile and looks at its controller kind.              *)
Open(p, kind) ==
    /\ proc[p] = Idle /\ spent.ops < MaxOps
    /\ Loaded # None /\ Loaded.kind = kind
    /\ proc' = [proc EXCEPT ![p].opened = Loaded]
    /\ Counts
    /\ UNCHANGED <<target, durable, temp, versions, fresh>>

(* pair() fails, or the controller is closed.                              *)
Close(p) ==
    /\ proc[p].at = "idle" /\ proc[p].opened # None
    /\ Closes(p)
    /\ UNCHANGED <<target, durable, temp, versions, fresh, spent>>

(* Seeded bug: all namespaces are cleared, not only the current one.       *)
EditClearing(p, peers) ==
    /\ proc[p].at = "idle" /\ proc[p].opened # None /\ spent.ops < MaxOps
    /\ Matching(p, Loaded)
    /\ proc' = [proc EXCEPT ![p].at = "save",
                            ![p].keys = [a \in Addresses |-> IF a = Namespace(p) THEN peers ELSE {}]]
    /\ fresh' = [fresh EXCEPT ![p] = TRUE]
    /\ Counts
    /\ UNCHANGED <<target, durable, temp, versions>>

(* The key store of p loads the keys and gives its namespace those of      *)
(* peers.                                                                  *)
Edit(p, peers) ==
    /\ proc[p].at = "idle" /\ proc[p].opened # None /\ spent.ops < MaxOps
    /\ Matching(p, Loaded)
    /\ proc' = [proc EXCEPT ![p].at = "save",
                            ![p].keys = [Loaded.keys EXCEPT ![Namespace(p)] = peers]]
    /\ fresh' = [fresh EXCEPT ![p] = TRUE]
    /\ Counts
    /\ UNCHANGED <<target, durable, temp, versions>>

(* update(): the namespace gets one peer's keys, and no other's.           *)
Update(p, peer) == Edit(p, {peer})

(* delete() of a peer it has.                                              *)
Delete(p, peer) ==
    /\ Loaded # None /\ proc[p].opened # None
    /\ peer \in Loaded.keys[Namespace(p)]
    /\ Edit(p, Loaded.keys[Namespace(p)] \ {peer})

DeleteAll(p) == Edit(p, {})

(* save() of the key store loads the profile again, for its identity.      *)
Reload(p) ==
    /\ proc[p].at = "save"
    /\ IF Matching(p, Loaded)
       THEN proc' = [proc EXCEPT ![p].at = "replace", ![p].result = [Loaded EXCEPT !.keys = proc[p].keys]]
       ELSE Ends(p)
    /\ UNCHANGED <<target, durable, temp, versions, fresh, spent>>

(* _write_temporary_file(): the data, then fsync, or the file is removed.  *)
WriteTemporary(p) ==
    /\ proc[p].at \in {"create", "replace"} /\ temp[p] = None
    /\ \/ /\ temp' = [temp EXCEPT ![p] = [data |-> proc[p].result, synced |-> FALSE]]
          /\ UNCHANGED proc
       \/ /\ IF proc[p].at = "create" THEN Closes(p) ELSE Ends(p)
          /\ UNCHANGED temp
    /\ UNCHANGED <<target, durable, versions, fresh, spent>>

(* Seeded bug: a file that could not be synced is left behind.             *)
SyncKeeping(p) ==
    /\ proc[p].at \in {"create", "replace"} /\ temp[p] # None /\ ~temp[p].synced
    /\ \/ temp' = [temp EXCEPT ![p].synced = TRUE] /\ UNCHANGED proc
       \/ Ends(p) /\ UNCHANGED temp
    /\ UNCHANGED <<target, durable, versions, fresh, spent>>

Sync(p) ==
    /\ proc[p].at \in {"create", "replace"} /\ temp[p] # None /\ ~temp[p].synced
    /\ \/ temp' = [temp EXCEPT ![p].synced = TRUE] /\ UNCHANGED proc
       \/ /\ temp' = [temp EXCEPT ![p] = None]
          /\ IF proc[p].at = "create" THEN Closes(p) ELSE Ends(p)
    /\ UNCHANGED <<target, durable, versions, fresh, spent>>

(* Seeded bug: the temporary file is used before its data is on the disk.  *)
Written(p) == temp[p] # None

(* The temporary file is complete.                                         *)
Prepared(p) == temp[p] # None /\ temp[p].synced

(* The file of p takes the profile path.                                   *)
Takes(p) ==
    /\ target' = temp[p]
    /\ versions' = versions \cup {temp[p].data}

(* Seeded bug: create_new() replaces the file that is there.               *)
LinkOver(p) ==
    /\ proc[p].at = "create" /\ Prepared(p)
    /\ Takes(p)
    /\ Goes(p, "created")
    /\ UNCHANGED <<durable, temp, fresh, spent>>

(* os.link() fails if there is a file.                                     *)
Link(p) ==
    /\ proc[p].at = "create" /\ Prepared(p)
    /\ IF target = None
       THEN Takes(p) /\ Goes(p, "created")
       ELSE Goes(p, "refused") /\ UNCHANGED <<target, versions>>
    /\ UNCHANGED <<durable, temp, fresh, spent>>

(* The temporary file is removed; then the controller of p is made.        *)
Unlink(p) ==
    /\ proc[p].at \in {"created", "refused"}
    /\ temp' = [temp EXCEPT ![p] = None]
    /\ IF proc[p].at = "created" THEN Ends(p) ELSE Closes(p)
    /\ UNCHANGED <<target, durable, versions, fresh, spent>>

(* save() replaces the profile, and what another process has saved since   *)
(* this one loaded the keys is lost.                                       *)
Replace(p) ==
    /\ proc[p].at = "replace" /\ Prepared(p)
    /\ Takes(p)
    /\ fresh' = [q \in Processes |-> q = p]
    /\ temp' = [temp EXCEPT ![p] = None]
    /\ Ends(p)
    /\ UNCHANGED <<durable, spent>>

-----------------------------------------------------------------------------
(* The system writes the directory to the disk.                            *)
Flush ==
    /\ durable # target
    /\ durable' = target
    /\ UNCHANGED <<target, temp, proc, versions, fresh, spent>>

Kill(p) ==
    /\ proc[p] # Idle /\ spent.crashes < MaxCrashes
    /\ Closes(p)
    /\ temp' = [temp EXCEPT ![p] = None]        \* nobody looks at it again
    /\ spent' = [spent EXCEPT !.crashes = @ + 1]
    /\ UNCHANGED <<target, durable, versions, fresh>>

(* What the disk has of a file after a power failure.                      *)
Survivor(file) ==
    IF file = None \/ file.synced THEN {file}
    ELSE {[data |-> d, synced |-> TRUE] : d \in {file.data, Torn}}

PowerFails ==
    /\ spent.crashes < MaxCrashes
    /\ \E name \in {target, durable} : target' \in Survivor(name)
    /\ durable' = target'
    /\ temp' = [p \in Processes |-> None]
    /\ proc' = [p \in Processes |-> Idle]
    /\ spent' = [spent EXCEPT !.crashes = @ + 1]
    /\ UNCHANGED <<versions, fresh>>

-----------------------------------------------------------------------------
Next ==
    \/ \E p \in Processes :
          \/ \E id \in Locals, kind \in Kinds : CreateNew(p, id, kind)
          \/ \E kind \in Kinds : Open(p, kind)
          \/ Close(p)
          \/ \E peer \in Peers : Update(p, peer) \/ Delete(p, peer)
          \/ DeleteAll(p) \/ Reload(p)
          \/ WriteTemporary(p) \/ Sync(p) \/ Link(p) \/ Unlink(p) \/ Replace(p)
          \/ Kill(p)
    \/ Flush \/ PowerFails

Spec == Init /\ [][Next]_vars

-----------------------------------------------------------------------------
Activities == [at : {"idle", "create", "created", "refused", "save", "replace"},
               opened : Profiles \cup {None}, keys : KeyStores \cup {None},
               result : Profiles \cup {None}]

(* The variables have their types, and a temporary file holds the profile  *)
(* that its process is writing.                                            *)
TypeOK ==
    /\ target \in Files \cup {None} /\ durable \in Files \cup {None}
    /\ temp \in [Processes -> Files \cup {None}]
    /\ proc \in [Processes -> Activities]
    /\ \A p \in Processes : /\ temp[p] # None => temp[p].data = proc[p].result
                            /\ proc[p].at \in {"idle", "save"} => temp[p] = None
    /\ versions \subseteq Profiles
    /\ fresh \in [Processes -> BOOLEAN]
    /\ spent \in [ops : Nat, crashes : Nat]

(* However processes are killed and the power fails, the profile path has  *)
(* no file, or a whole profile that was created or saved, the old one or   *)
(* the new one ("atomically", _pairing_profile.py:96 and :135).            *)
OldOrNew ==
    \A file \in {target, durable} : file = None \/ file.data \in versions

(* create_profile() overwrites no profile, also not one that another       *)
(* process creates at the same time (docs/api.md:135), and no key store    *)
(* changes whose profile it is: there is one identity and controller kind  *)
(* as long as the file is there.                                           *)
IdentityKept ==
    [][target # None /\ target' # None =>
          /\ target'.data.identity = target.data.identity
          /\ target'.data.kind = target.data.kind]_vars

(* Saving the keys of one adapter keeps those of the others, unless        *)
(* another process saved in between.                                       *)
OtherBondsKept ==
    [][\A p \in Processes :
          /\ proc[p].at = "replace" /\ proc'[p].at = "idle" /\ proc'[p].opened # None
          /\ fresh[p] /\ target' # target
          =>
              \A a \in Addresses \ {Namespace(p)} :
                  target'.data.keys[a] = target.data.keys[a]]_vars

=============================================================================
