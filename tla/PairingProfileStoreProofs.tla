----------------------- MODULE PairingProfileStoreProofs -----------------------
(***************************************************************************)
(* For any number of processes, adapters, hosts and crashes, the profile   *)
(* path has an old or a new whole profile, of one identity, and saving the *)
(* keys of one adapter keeps those of the others.                          *)
(***************************************************************************)
EXTENDS PairingProfileStore, TLAPS

(* What a process writes is a profile.                                     *)
ResultReady ==
    \A p \in Processes :
        /\ proc[p].at \in {"create", "created", "refused", "replace"} =>
               proc[p].result \in Profiles
        /\ proc[p].at = "save" => proc[p].keys \in KeyStores

Typed == TypeOK /\ ResultReady

(* Both names have no file, or a profile that is on the disk.              *)
Whole ==
    \A file \in {target, durable} : file = None \/ (file.data \in versions /\ file.synced)

SameProfile(x, y) == x.identity = y.identity /\ x.kind = y.kind

(* There is one identity and kind among the files of the profile path and  *)
(* what is about to replace it, and a file does not go away.               *)
Owned ==
    /\ durable # None => target # None /\ SameProfile(durable.data, target.data)
    /\ \A p \in Processes : proc[p].at = "replace" =>
           target # None /\ SameProfile(proc[p].result, target.data)

KeepsOthers(p, keys) ==
    target # None /\ \A a \in Addresses \ {Namespace(p)} : keys[a] = target.data.keys[a]

(* A save in progress has the other adapters' keys as they are stored,     *)
(* unless another process has saved since it loaded them.                  *)
Carried ==
    \A p \in Processes : fresh[p] =>
        /\ proc[p].at = "save" => KeepsOthers(p, proc[p].keys)
        /\ proc[p].at = "replace" => KeepsOthers(p, proc[p].result.keys)

-----------------------------------------------------------------------------
(* A file is read as the profile it holds.                                 *)
LEMMA LoadedProfile ==
    ASSUME Typed, Loaded # None
    PROVE  target # None /\ Loaded = target.data /\ Loaded \in Profiles
<1>1. target # None /\ target.data # Torn /\ Loaded = target.data
  BY DEF Loaded
<1>2. target \in Files
  BY <1>1 DEF Typed, TypeOK
<1> QED
  BY <1>1, <1>2 DEF Files

(* The namespace of an open controller is an address.                      *)
LEMMA NamespaceType ==
    ASSUME Typed, NEW p \in Processes, proc[p].opened # None
    PROVE  Namespace(p) \in Addresses
<1>1. proc[p].opened \in Profiles
  BY DEF Typed, TypeOK, Activities
<1>2. proc[p].opened.identity \in Addresses \cup {AdapterDefault}
  BY <1>1 DEF Profiles, Identities
<1> QED
  BY <1>2, StoreAssumption DEF Namespace

(* Operations begin and end with records of the right type.                *)
LEMMA ActivityTypes ==
    ASSUME Typed, NEW p \in Processes
    PROVE  /\ Idle \in Activities
           /\ [Idle EXCEPT !.opened = proc[p].opened] \in Activities
           /\ \A at \in {"idle", "create", "created", "refused", "save", "replace"} :
                  [proc[p] EXCEPT !.at = at] \in Activities
<1>1. proc[p] \in Activities
  BY DEF Typed, TypeOK
<1> QED
  BY <1>1 DEF Idle, Activities

(* A profile with other keys is a profile of the same identity.            *)
LEMMA KeysReplaced ==
    ASSUME NEW x \in Profiles, NEW keys \in KeyStores
    PROVE  LET y == [x EXCEPT !.keys = keys]
           IN  y \in Profiles /\ SameProfile(y, x) /\ y.keys = keys
  BY DEF Profiles, SameProfile

(* The keys of a store with one namespace changed.                         *)
LEMMA NamespaceReplaced ==
    ASSUME NEW keys \in KeyStores, NEW n \in Addresses, NEW peers \in SUBSET Peers
    PROVE  /\ [keys EXCEPT ![n] = peers] \in KeyStores
           /\ \A a \in Addresses \ {n} : [keys EXCEPT ![n] = peers][a] = keys[a]
  BY DEF KeyStores

-----------------------------------------------------------------------------
LEMMA TypedInit == Init => Typed
<1> SUFFICES ASSUME Init PROVE Typed
  OBVIOUS
<1>1. target \in Files \cup {None} /\ versions \subseteq Profiles
  <2>1. CASE target = None
    BY <2>1 DEF Init
  <2>2. CASE target # None
    <3>1. [a \in Addresses |-> Peers] \in KeyStores
      BY DEF KeyStores
    <3>2. PICK k \in Kinds :
              /\ target.data = [identity |-> AdapterDefault, kind |-> k,
                                keys |-> [a \in Addresses |-> Peers]]
              /\ target = [data |-> target.data, synced |-> TRUE]
      BY <2>2 DEF Init
    <3>3. target.data \in Profiles
      BY <3>1, <3>2 DEF Profiles, Identities
    <3> QED
      BY <2>2, <3>2, <3>3 DEF Init, Files
  <2> QED
    BY <2>1, <2>2
<1>2. proc \in [Processes -> Activities] /\ \A p \in Processes : proc[p] = Idle
  BY DEF Init, Idle, Activities
<1>4. Idle.at = "idle"
  BY DEF Idle
<1> QED
  BY <1>1, <1>2, <1>4 DEF Init, Typed, TypeOK, ResultReady

(* The activity of one process changes.                                    *)
LEMMA ActivityChange ==
    ASSUME Typed, NEW p \in Processes, NEW new \in Activities,
           proc' = [proc EXCEPT ![p] = new],
           \/ temp' = temp /\ (temp[p] # None => temp[p].data = new.result)
                           /\ (new.at \in {"idle", "save"} => temp[p] = None)
           \/ temp' = [temp EXCEPT ![p] = None],
           new.at \in {"create", "created", "refused", "replace"} => new.result \in Profiles,
           new.at = "save" => new.keys \in KeyStores
    PROVE  /\ temp' \in [Processes -> Files \cup {None}]
           /\ proc' \in [Processes -> Activities]
           /\ \A q \in Processes : /\ temp'[q] # None => temp'[q].data = proc'[q].result
                                   /\ proc'[q].at \in {"idle", "save"} => temp'[q] = None
           /\ ResultReady'
  BY DEF Typed, TypeOK, ResultReady

(* The counters of the bounds are numbers.                                 *)
LEMMA CounterType ==
    ASSUME Typed
    PROVE  /\ [spent EXCEPT !.ops = @ + 1] \in [ops : Nat, crashes : Nat]
           /\ [spent EXCEPT !.crashes = @ + 1] \in [ops : Nat, crashes : Nat]
  BY DEF Typed, TypeOK

LEMMA TypedStep == Typed /\ [Next]_vars => Typed'
<1> SUFFICES ASSUME Typed, [Next]_vars PROVE Typed'
  OBVIOUS
<1> USE DEF Typed
<1> DEFINE Ats == {"idle", "create", "created", "refused", "save", "replace"}
           Reset(p) == [Idle EXCEPT !.opened = proc[p].opened]
<1>0. \A p \in Processes : Reset(p).at = "idle" /\ Idle.at = "idle"
  BY DEF Idle
<1>1. ASSUME NEW p \in Processes, NEW id \in Locals, NEW kind \in Kinds, CreateNew(p, id, kind)
      PROVE  Typed'
  <2> DEFINE keys == [a \in Addresses |-> {}]
             profile == [identity |-> id, kind |-> kind, keys |-> keys]
             new == [at |-> "create", opened |-> profile, keys |-> keys, result |-> profile]
  <2>1. id \in Identities
    BY StoreAssumption
  <2>2. keys \in KeyStores /\ profile \in Profiles
    BY <2>1 DEF KeyStores, Profiles
  <2>3. new \in Activities
    BY <2>2 DEF Activities
  <2>4. proc' = [proc EXCEPT ![p] = new]
    BY <1>1 DEF CreateNew
  <2>5. temp[p] = None
    BY <1>1, <1>0 DEF CreateNew, TypeOK
  <2> QED
    BY <1>1, <2>2, <2>3, <2>4, <2>5, ActivityChange, CounterType
       DEF CreateNew, Counts, TypeOK
<1>2. ASSUME NEW p \in Processes, NEW kind \in Kinds, Open(p, kind)
      PROVE  Typed'
  <2> DEFINE new == [proc[p] EXCEPT !.opened = Loaded]
  <2>1. proc[p] = Idle /\ temp[p] = None
    BY <1>2, <1>0 DEF Open, TypeOK
  <2>2. Loaded \in Profiles
    BY <1>2, LoadedProfile DEF Open
  <2>3. new \in Activities /\ new.at = "idle"
    BY <2>1, <2>2 DEF Idle, Activities
  <2>4. proc' = [proc EXCEPT ![p] = new]
    BY <1>2 DEF Open
  <2> QED
    BY <1>2, <2>1, <2>3, <2>4, ActivityChange, CounterType DEF Open, Counts, TypeOK
<1>3. ASSUME NEW p \in Processes, Close(p)
      PROVE  Typed'
  <2>1. temp[p] = None
    BY <1>3 DEF Close, TypeOK
  <2> QED
    BY <1>0, <1>3, <2>1, ActivityTypes, ActivityChange DEF Close, Closes, TypeOK
<1>4. ASSUME NEW p \in Processes, NEW peers \in SUBSET Peers, Edit(p, peers)
      PROVE  Typed'
  <2> DEFINE keys == [Loaded.keys EXCEPT ![Namespace(p)] = peers]
             new == [proc[p] EXCEPT !.at = "save", !.keys = keys]
  <2>1. Loaded \in Profiles /\ Namespace(p) \in Addresses
    BY <1>4, LoadedProfile, NamespaceType DEF Edit, Matching
  <2>2. keys \in KeyStores
    BY <2>1, NamespaceReplaced DEF Profiles
  <2>3. proc[p] \in Activities
    BY DEF TypeOK
  <2>4. new \in Activities /\ new.at = "save" /\ new.keys = keys
    BY <2>2, <2>3 DEF Activities
  <2>5. proc' = [proc EXCEPT ![p] = new]
    BY <1>4 DEF Edit
  <2>6. temp[p] = None
    BY <1>4 DEF Edit, TypeOK
  <2>7. temp' = temp /\ UNCHANGED <<target, durable, versions>>
    BY <1>4 DEF Edit
  <2>8. spent' \in [ops : Nat, crashes : Nat] /\ fresh' \in [Processes -> BOOLEAN]
    BY <1>4, CounterType DEF Edit, Counts, TypeOK
  <2> HIDE DEF keys, new
  <2>9. /\ temp' \in [Processes -> Files \cup {None}]
        /\ proc' \in [Processes -> Activities]
        /\ \A q \in Processes : /\ temp'[q] # None => temp'[q].data = proc'[q].result
                                /\ proc'[q].at \in {"idle", "save"} => temp'[q] = None
        /\ ResultReady'
    BY <2>2, <2>4, <2>5, <2>6, <2>7, ActivityChange
  <2> QED
    BY <2>7, <2>8, <2>9 DEF TypeOK
<1>5. ASSUME NEW p \in Processes, Reload(p)
      PROVE  Typed'
  <2>1. temp[p] = None
    BY <1>5 DEF Reload, TypeOK
  <2>2. CASE Matching(p, Loaded)
    <3> DEFINE result == [Loaded EXCEPT !.keys = proc[p].keys]
               new == [proc[p] EXCEPT !.at = "replace", !.result = result]
    <3>1. Loaded \in Profiles
      BY <2>2, LoadedProfile DEF Matching
    <3>2. proc[p].keys \in KeyStores
      BY <1>5 DEF Reload, ResultReady
    <3>3. result \in Profiles
      BY <3>1, <3>2, KeysReplaced
    <3>4. proc[p] \in Activities
      BY DEF TypeOK
    <3>5. new \in Activities /\ new.at = "replace" /\ new.result = result
      BY <3>3, <3>4 DEF Activities
    <3>6. proc' = [proc EXCEPT ![p] = new]
      BY <1>5, <2>2 DEF Reload
    <3> QED
      BY <1>5, <2>1, <3>3, <3>5, <3>6, ActivityChange DEF Reload, TypeOK
  <2>3. CASE ~Matching(p, Loaded)
    BY <1>0, <1>5, <2>1, <2>3, ActivityTypes, ActivityChange DEF Reload, Ends, TypeOK
  <2> QED
    BY <2>2, <2>3
<1>6. ASSUME NEW p \in Processes, WriteTemporary(p)
      PROVE  Typed'
  <2> DEFINE file == [data |-> proc[p].result, synced |-> FALSE]
  <2>1. CASE temp' = [temp EXCEPT ![p] = file] /\ UNCHANGED proc
    <3>1. file \in Files
      BY <1>6 DEF WriteTemporary, ResultReady, Files
    <3> QED
      BY <1>6, <2>1, <3>1 DEF WriteTemporary, TypeOK, ResultReady
  <2>2. CASE Closes(p) /\ UNCHANGED temp
    BY <1>0, <1>6, <2>2, ActivityTypes, ActivityChange DEF WriteTemporary, Closes, TypeOK
  <2>3. CASE Ends(p) /\ UNCHANGED temp
    BY <1>0, <1>6, <2>3, ActivityTypes, ActivityChange DEF WriteTemporary, Ends, TypeOK
  <2> QED
    BY <1>6, <2>1, <2>2, <2>3 DEF WriteTemporary
<1>7. ASSUME NEW p \in Processes, Sync(p)
      PROVE  Typed'
  <2>1. CASE temp' = [temp EXCEPT ![p].synced = TRUE] /\ UNCHANGED proc
    <3> DEFINE file == [temp[p] EXCEPT !.synced = TRUE]
    <3>1. temp[p] \in Files
      BY <1>7 DEF Sync, TypeOK
    <3>2. file \in Files /\ file.data = temp[p].data
      BY <3>1 DEF Files
    <3>3. temp' = [temp EXCEPT ![p] = file]
      BY <2>1
    <3> QED
      BY <1>7, <2>1, <3>2, <3>3 DEF Sync, TypeOK, ResultReady
  <2>2. CASE temp' = [temp EXCEPT ![p] = None] /\ Closes(p)
    BY <1>0, <1>7, <2>2, ActivityTypes, ActivityChange DEF Sync, Closes, TypeOK
  <2>3. CASE temp' = [temp EXCEPT ![p] = None] /\ Ends(p)
    BY <1>0, <1>7, <2>3, ActivityTypes, ActivityChange DEF Sync, Ends, TypeOK
  <2> QED
    BY <1>7, <2>1, <2>2, <2>3 DEF Sync
<1>8. ASSUME NEW p \in Processes, Link(p)
      PROVE  Typed'
  <2>1. proc[p] \in Activities /\ proc[p].result \in Profiles
    BY <1>8 DEF Link, TypeOK, ResultReady
  <2>2. temp[p] \in Files /\ temp[p].data = proc[p].result
    BY <1>8 DEF Link, Prepared, TypeOK
  <2>3. CASE target = None
    <3> DEFINE new == [proc[p] EXCEPT !.at = "created"]
    <3>1. new \in Activities /\ new.at = "created" /\ new.result = proc[p].result
      BY <2>1 DEF Activities
    <3>2. proc' = [proc EXCEPT ![p] = new]
      BY <1>8, <2>3 DEF Link, Goes
    <3>3. target' \in Files /\ versions' \subseteq Profiles
      BY <1>8, <2>1, <2>2, <2>3 DEF Link, Takes, TypeOK
    <3>4. temp' = temp
      BY <1>8 DEF Link
    <3>5. /\ temp' \in [Processes -> Files \cup {None}]
          /\ proc' \in [Processes -> Activities]
          /\ \A q \in Processes : /\ temp'[q] # None => temp'[q].data = proc'[q].result
                                  /\ proc'[q].at \in {"idle", "save"} => temp'[q] = None
          /\ ResultReady'
      BY <2>1, <2>2, <3>1, <3>2, <3>4, ActivityChange
    <3> QED
      BY <1>8, <3>3, <3>5 DEF Link, TypeOK
  <2>4. CASE target # None
    <3> DEFINE new == [proc[p] EXCEPT !.at = "refused"]
    <3>1. new \in Activities /\ new.at = "refused" /\ new.result = proc[p].result
      BY <2>1 DEF Activities
    <3>2. proc' = [proc EXCEPT ![p] = new]
      BY <1>8, <2>4 DEF Link, Goes
    <3> QED
      BY <1>8, <2>1, <2>2, <2>4, <3>1, <3>2, ActivityChange DEF Link, TypeOK
  <2> QED
    BY <2>3, <2>4
<1>9. ASSUME NEW p \in Processes, Unlink(p)
      PROVE  Typed'
  <2>1. CASE Ends(p)
    BY <1>0, <1>9, <2>1, ActivityTypes, ActivityChange DEF Unlink, Ends, TypeOK
  <2>2. CASE Closes(p)
    BY <1>0, <1>9, <2>2, ActivityTypes, ActivityChange DEF Unlink, Closes, TypeOK
  <2> QED
    BY <1>9, <2>1, <2>2 DEF Unlink
<1>10. ASSUME NEW p \in Processes, Replace(p)
       PROVE  Typed'
  <2>1. proc[p].result \in Profiles
    BY <1>10 DEF Replace, ResultReady
  <2>2. temp[p] \in Files /\ temp[p].data = proc[p].result
    BY <1>10 DEF Replace, Prepared, TypeOK
  <2> QED
    BY <1>0, <1>10, <2>1, <2>2, ActivityTypes, ActivityChange DEF Replace, Takes, Ends, TypeOK
<1>11. ASSUME NEW p \in Processes, Kill(p)
       PROVE  Typed'
  BY <1>0, <1>11, ActivityTypes, ActivityChange, CounterType DEF Kill, Closes, TypeOK
<1>12. ASSUME Flush PROVE Typed'
  BY <1>12 DEF Flush, TypeOK, ResultReady
<1>13. ASSUME PowerFails PROVE Typed'
  <2>1. PICK name \in {target, durable} : target' \in Survivor(name)
    BY <1>13 DEF PowerFails
  <2>2. target' \in Files \cup {None}
    <3>1. name \in Files \cup {None}
      BY DEF TypeOK
    <3>2. CASE name = None \/ name.synced
      BY <2>1, <3>1, <3>2 DEF Survivor
    <3>3. CASE ~(name = None \/ name.synced)
      <4>1. PICK d \in {name.data, Torn} : target' = [data |-> d, synced |-> TRUE]
        BY <2>1, <3>3 DEF Survivor
      <4>2. name.data \in Profiles \cup {Torn}
        BY <3>1, <3>3 DEF Files
      <4> QED
        BY <4>1, <4>2 DEF Files
    <3> QED
      BY <3>2, <3>3
  <2>3. Idle \in Activities
    BY DEF Idle, Activities
  <2> QED
    BY <1>0, <1>13, <2>2, <2>3 DEF PowerFails, TypeOK, ResultReady
<1>14. ASSUME UNCHANGED vars PROVE Typed'
  BY <1>14 DEF vars, TypeOK, ResultReady
<1>15. ASSUME NEW p \in Processes, NEW peer \in Peers, Update(p, peer) \/ Delete(p, peer)
       PROVE  Typed'
  <2>1. Loaded # None => Loaded \in Profiles
    BY LoadedProfile
  <2>2. proc[p].opened # None => Namespace(p) \in Addresses
    BY NamespaceType
  <2>3. Loaded \in Profiles /\ Namespace(p) \in Addresses =>
            Loaded.keys[Namespace(p)] \ {peer} \in SUBSET Peers
    BY DEF Profiles, KeyStores
  <2> QED
    BY <1>4, <1>15, <2>1, <2>2, <2>3 DEF Update, Delete
<1>16. ASSUME NEW p \in Processes, DeleteAll(p) PROVE Typed'
  BY <1>4, <1>16 DEF DeleteAll
<1> QED
  BY <1>1, <1>2, <1>3, <1>5, <1>6, <1>7, <1>8, <1>9, <1>10, <1>11, <1>12, <1>13, <1>14,
     <1>15, <1>16 DEF Next

(* Every variable of the profile store keeps its type, and a temporary     *)
(* file holds what its process is writing.                                 *)
THEOREM TypeCorrect == Spec => []TypeOK
<1>1. Typed => TypeOK
  BY DEF Typed
<1> QED
  BY TypedInit, TypedStep, <1>1, PTL DEF Spec

-----------------------------------------------------------------------------
LEMMA WholeInit == Init => Whole
  BY DEF Init, Whole

LEMMA WholeStep == Typed /\ Whole /\ [Next]_vars => Whole'
<1> SUFFICES ASSUME Typed, Whole, [Next]_vars PROVE Whole'
  OBVIOUS
<1>1. ASSUME NEW p \in Processes, Prepared(p), Takes(p), durable' = durable
      PROVE  Whole'
  BY <1>1 DEF Prepared, Takes, Whole
<1>2. ASSUME NEW p \in Processes, Link(p) PROVE Whole'
  BY <1>1, <1>2 DEF Link, Whole
<1>3. ASSUME NEW p \in Processes, Replace(p) PROVE Whole'
  BY <1>1, <1>3 DEF Replace
<1>4. ASSUME Flush PROVE Whole'
  BY <1>4 DEF Flush, Whole
<1>5. ASSUME PowerFails PROVE Whole'
  <2>1. PICK name \in {target, durable} : target' \in Survivor(name)
    BY <1>5 DEF PowerFails
  <2>2. target' = name
    BY <2>1 DEF Whole, Survivor
  <2> QED
    BY <1>5, <2>2 DEF PowerFails, Whole
<1>6. ASSUME UNCHANGED <<target, durable, versions>> PROVE Whole'
  BY <1>6 DEF Whole
<1> QED
  BY <1>2, <1>3, <1>4, <1>5, <1>6
     DEF Next, vars, CreateNew, Open, Close, Edit, Update, Delete, DeleteAll, Reload,
         WriteTemporary, Sync, Unlink, Kill

(* After every kill and power failure the profile path has no file, or a   *)
(* whole profile that was created or saved.                                *)
THEOREM CrashSafe == Spec => []OldOrNew
<1>1. Whole => OldOrNew
  BY DEF Whole, OldOrNew
<1> QED
  BY TypedInit, TypedStep, WholeInit, WholeStep, <1>1, PTL DEF Spec

-----------------------------------------------------------------------------
(* Processes that go on with a save, if any, go on with the same one.      *)
Continues ==
    \A q \in Processes : proc'[q].at \in {"save", "replace"} => proc'[q] = proc[q]

(* Only few steps concern the profile path or begin a save.                *)
LEMMA StepShapes ==
    ASSUME Typed, [Next]_vars
    PROVE  \/ Continues /\ UNCHANGED <<target, durable, fresh>>
           \/ \E p \in Processes : Link(p)
           \/ \E p \in Processes : Replace(p)
           \/ Flush
           \/ PowerFails
           \/ \E p \in Processes, peers \in SUBSET Peers : Edit(p, peers)
           \/ \E p \in Processes : Reload(p)
<1> DEFINE Quiet == Continues /\ UNCHANGED <<target, durable, fresh>>
<1>1. proc \in [Processes -> Activities]
  BY DEF Typed, TypeOK
<1>2. ASSUME NEW p \in Processes, NEW new, proc' = [proc EXCEPT ![p] = new],
             new.at \notin {"save", "replace"}
      PROVE  Continues
  BY <1>1, <1>2 DEF Continues
<1>3. \A p \in Processes : /\ Idle.at = "idle"
                           /\ [Idle EXCEPT !.opened = proc[p].opened].at = "idle"
                           /\ proc[p] = Idle => [proc[p] EXCEPT !.opened = Loaded].at = "idle"
  BY DEF Idle
<1>4. ASSUME NEW p \in Processes, Ends(p) \/ Closes(p) PROVE Continues
  BY <1>2, <1>3, <1>4 DEF Ends, Closes
<1>5. UNCHANGED proc => Continues
  BY DEF Continues
<1>6. ASSUME NEW p \in Processes, NEW id \in Locals, NEW kind \in Kinds, CreateNew(p, id, kind)
      PROVE  Quiet
  BY <1>2, <1>6 DEF CreateNew
<1>7. ASSUME NEW p \in Processes, NEW kind \in Kinds, Open(p, kind) PROVE Quiet
  <2> DEFINE new == [proc[p] EXCEPT !.opened = Loaded]
  <2>1. proc' = [proc EXCEPT ![p] = new] /\ new.at = "idle"
    BY <1>3, <1>7 DEF Open
  <2>2. Continues
    BY <1>2, <2>1
  <2> QED
    BY <1>7, <2>2 DEF Open
<1>8. ASSUME NEW p \in Processes,
             Close(p) \/ WriteTemporary(p) \/ Sync(p) \/ Unlink(p) \/ Kill(p)
      PROVE  Quiet
  BY <1>4, <1>5, <1>8 DEF Close, WriteTemporary, Sync, Unlink, Kill
<1>9. ASSUME NEW p \in Processes, NEW peer \in Peers, Update(p, peer) \/ Delete(p, peer)
      PROVE  \E peers \in SUBSET Peers : Edit(p, peers)
  <2>1. CASE Update(p, peer)
    BY <2>1 DEF Update
  <2>2. CASE Delete(p, peer)
    <3>1. Loaded \in Profiles /\ Namespace(p) \in Addresses
      BY <2>2, LoadedProfile, NamespaceType DEF Delete
    <3>2. Loaded.keys[Namespace(p)] \ {peer} \in SUBSET Peers
      BY <3>1 DEF Profiles, KeyStores
    <3> QED
      BY <2>2, <3>2 DEF Delete
  <2> QED
    BY <1>9, <2>1, <2>2
<1>10. ASSUME NEW p \in Processes, DeleteAll(p)
       PROVE  \E peers \in SUBSET Peers : Edit(p, peers)
  BY <1>10 DEF DeleteAll
<1>11. UNCHANGED vars => Quiet
  BY <1>5 DEF vars
<1> QED
  BY <1>6, <1>7, <1>8, <1>9, <1>10, <1>11 DEF Next

(* What is left of a save when its process replaces the profile.           *)
LEMMA ReplaceShape ==
    ASSUME Typed, NEW p \in Processes, Replace(p)
    PROVE  /\ target' # None /\ target'.data = proc[p].result
           /\ durable' = durable /\ fresh' = [q \in Processes |-> q = p]
           /\ proc[p].at = "replace" /\ proc'[p].at = "idle"
           /\ \A q \in Processes \ {p} : proc'[q] = proc[q]
<1>1. temp[p] # None /\ target' = temp[p] /\ temp[p].data = proc[p].result
  BY DEF Replace, Prepared, Takes, Typed, TypeOK
<1>2. [Idle EXCEPT !.opened = proc[p].opened].at = "idle"
  BY DEF Idle
<1>3. proc \in [Processes -> Activities]
  BY DEF Typed, TypeOK
<1>4. proc'[p].at = "idle" /\ \A q \in Processes \ {p} : proc'[q] = proc[q]
  BY <1>2, <1>3 DEF Replace, Ends
<1> QED
  BY <1>1, <1>4 DEF Replace

(* A profile path that was empty is linked to, and no other changed.       *)
LEMMA LinkShape ==
    ASSUME Typed, NEW p \in Processes, Link(p)
    PROVE  /\ Continues /\ durable' = durable /\ fresh' = fresh
           /\ target # None => target' = target
<1> DEFINE New(at) == [proc[p] EXCEPT !.at = at]
<1>1. proc \in [Processes -> Activities]
  BY DEF Typed, TypeOK
<1>2. proc[p] \in Activities
  BY <1>1
<1>3. New("created").at = "created" /\ New("refused").at = "refused"
  BY <1>2 DEF Activities
<1>4. \E at \in {"created", "refused"} : proc' = [proc EXCEPT ![p] = New(at)]
  BY DEF Link, Goes
<1> HIDE DEF New
<1>5. Continues
  BY <1>1, <1>3, <1>4 DEF Continues
<1> QED
  BY <1>5 DEF Link

(* What a reloading process is about to write, and the others keep.        *)
LEMMA ReloadShape ==
    ASSUME Typed, NEW p \in Processes, Reload(p)
    PROVE  /\ UNCHANGED <<target, durable, fresh>>
           /\ \A q \in Processes \ {p} : proc'[q] = proc[q]
           /\ proc[p].at = "save" /\ proc'[p].at \in {"idle", "replace"}
           /\ proc'[p].at = "replace" =>
                  /\ target # None /\ SameProfile(proc'[p].result, target.data)
                  /\ proc'[p].result.keys = proc[p].keys
                  /\ proc'[p].opened = proc[p].opened
<1>1. proc \in [Processes -> Activities] /\ proc[p] \in Activities
  BY DEF Typed, TypeOK
<1>2. [Idle EXCEPT !.opened = proc[p].opened].at = "idle"
  BY DEF Idle
<1>3. proc[p].at = "save" /\ proc[p].keys \in KeyStores
  BY DEF Reload, Typed, ResultReady
<1>4. CASE ~Matching(p, Loaded)
  BY <1>1, <1>2, <1>3, <1>4 DEF Reload, Ends
<1>5. CASE Matching(p, Loaded)
  <2> DEFINE result == [Loaded EXCEPT !.keys = proc[p].keys]
             new == [proc[p] EXCEPT !.at = "replace", !.result = result]
  <2>1. target # None /\ Loaded = target.data /\ Loaded \in Profiles
    BY <1>5, LoadedProfile DEF Matching
  <2>2. SameProfile(result, Loaded) /\ result.keys = proc[p].keys
    BY <1>3, <2>1, KeysReplaced
  <2>3. proc' = [proc EXCEPT ![p] = new]
    BY <1>5 DEF Reload
  <2>4. new.at = "replace" /\ new.result = result /\ new.opened = proc[p].opened
    BY <1>1 DEF Activities
  <2> HIDE DEF result, new
  <2>5. proc'[p] = new /\ \A q \in Processes \ {p} : proc'[q] = proc[q]
    BY <1>1, <2>3
  <2> QED
    BY <1>3, <2>1, <2>2, <2>4, <2>5 DEF Reload
<1> QED
  BY <1>4, <1>5

(* The keys a process is about to save, when it has just loaded them.      *)
LEMMA EditShape ==
    ASSUME Typed, NEW p \in Processes, NEW peers \in SUBSET Peers, Edit(p, peers)
    PROVE  /\ UNCHANGED <<target, durable>>
           /\ fresh' = [fresh EXCEPT ![p] = TRUE]
           /\ \A q \in Processes \ {p} : proc'[q] = proc[q]
           /\ proc'[p].at = "save" /\ proc'[p].opened = proc[p].opened
           /\ KeepsOthers(p, proc'[p].keys)
<1> DEFINE keys == [Loaded.keys EXCEPT ![Namespace(p)] = peers]
           new == [proc[p] EXCEPT !.at = "save", !.keys = keys]
<1>1. proc \in [Processes -> Activities] /\ proc[p] \in Activities
  BY DEF Typed, TypeOK
<1>2. target # None /\ Loaded = target.data /\ Loaded \in Profiles
  BY LoadedProfile DEF Edit, Matching
<1>3. Loaded.keys \in KeyStores /\ Namespace(p) \in Addresses
  BY <1>2, NamespaceType DEF Edit, Profiles
<1>4. \A a \in Addresses \ {Namespace(p)} : keys[a] = Loaded.keys[a]
  BY <1>3, NamespaceReplaced
<1>5. proc' = [proc EXCEPT ![p] = new]
  BY DEF Edit
<1>6. new.at = "save" /\ new.keys = keys /\ new.opened = proc[p].opened
  BY <1>1 DEF Activities
<1> HIDE DEF keys, new
<1>7. proc'[p] = new /\ \A q \in Processes \ {p} : proc'[q] = proc[q]
  BY <1>1, <1>5
<1> QED
  BY <1>2, <1>4, <1>6, <1>7 DEF Edit, KeepsOthers

(* After a power failure the profile path has one of the two files that    *)
(* the system and the disk had, and nobody does anything.                  *)
LEMMA PowerShape ==
    ASSUME Typed, Whole, PowerFails
    PROVE  /\ target' \in {target, durable} /\ durable' = target'
           /\ \A p \in Processes : proc'[p].at = "idle" /\ proc'[p].opened = None
<1>1. PICK name \in {target, durable} : target' \in Survivor(name)
  BY DEF PowerFails
<1>2. target' = name
  BY <1>1 DEF Whole, Survivor
<1>3. Idle.at = "idle" /\ Idle.opened = None
  BY DEF Idle
<1> QED
  BY <1>2, <1>3 DEF PowerFails

-----------------------------------------------------------------------------
LEMMA OwnedInit == Init => Owned
<1>1. Idle.at = "idle"
  BY DEF Idle
<1> QED
  BY <1>1 DEF Init, Owned, SameProfile

(* A step leaves the profile path with the identity and kind it had, and   *)
(* so does what is in progress.                                            *)
LEMMA OwnedStep ==
    Typed /\ Whole /\ Owned /\ [Next]_vars =>
        /\ Owned'
        /\ target # None /\ target' # None => SameProfile(target'.data, target.data)
<1> DEFINE Same == target # None /\ target' # None => SameProfile(target'.data, target.data)
<1> SUFFICES ASSUME Typed, Whole, Owned, [Next]_vars PROVE Owned' /\ Same
  OBVIOUS
<1>1. CASE Continues /\ UNCHANGED <<target, durable, fresh>>
  BY <1>1 DEF Continues, Owned, SameProfile
<1>2. ASSUME NEW p \in Processes, Link(p) PROVE Owned' /\ Same
  <2>1. /\ Continues /\ durable' = durable
        /\ target # None => target' = target
    BY <1>2, LinkShape
  <2>2. CASE target = None
    BY <2>1, <2>2 DEF Continues, Owned
  <2>3. CASE target # None
    BY <2>1, <2>3 DEF Continues, Owned, SameProfile
  <2> QED
    BY <2>2, <2>3
<1>3. ASSUME NEW p \in Processes, Replace(p) PROVE Owned' /\ Same
  <2>1. /\ target' # None /\ target'.data = proc[p].result
        /\ durable' = durable
        /\ proc[p].at = "replace" /\ proc'[p].at = "idle"
        /\ \A q \in Processes \ {p} : proc'[q] = proc[q]
    BY <1>3, ReplaceShape
  <2>2. target # None /\ SameProfile(target'.data, target.data)
    BY <2>1 DEF Owned
  <2> QED
    BY <2>1, <2>2 DEF Owned, SameProfile
<1>4. CASE Flush
  BY <1>4 DEF Flush, Owned, SameProfile
<1>5. CASE PowerFails
  <2>1. /\ target' \in {target, durable} /\ durable' = target'
        /\ \A p \in Processes : proc'[p].at = "idle"
    BY <1>5, PowerShape
  <2> QED
    BY <2>1 DEF Owned, SameProfile
<1>6. ASSUME NEW p \in Processes, NEW peers \in SUBSET Peers, Edit(p, peers)
      PROVE  Owned' /\ Same
  <2>1. /\ UNCHANGED <<target, durable>>
        /\ \A q \in Processes \ {p} : proc'[q] = proc[q]
        /\ proc'[p].at = "save"
    BY <1>6, EditShape
  <2> QED
    BY <2>1 DEF Owned, SameProfile
<1>7. ASSUME NEW p \in Processes, Reload(p) PROVE Owned' /\ Same
  <2>1. /\ UNCHANGED <<target, durable>>
        /\ \A q \in Processes \ {p} : proc'[q] = proc[q]
        /\ proc'[p].at = "replace" =>
               target # None /\ SameProfile(proc'[p].result, target.data)
    BY <1>7, ReloadShape
  <2> QED
    BY <2>1 DEF Owned, SameProfile
<1> QED
  BY <1>1, <1>2, <1>3, <1>4, <1>5, <1>6, <1>7, StepShapes

(* No process overwrites a profile of another identity or kind, however    *)
(* creations, saves, kills and power failures interleave.                  *)
THEOREM OneIdentity == Spec => IdentityKept
<1> DEFINE Kept == target # None /\ target' # None =>
               /\ target'.data.identity = target.data.identity
               /\ target'.data.kind = target.data.kind
<1>1. Typed /\ Whole /\ Owned /\ [Next]_vars => [Kept]_vars
  BY OwnedStep DEF SameProfile
<1>2. Typed /\ Whole /\ Owned /\ [Next]_vars => Owned'
  BY OwnedStep
<1>3. Spec => [][Kept]_vars
  BY TypedInit, TypedStep, WholeInit, WholeStep, OwnedInit, <1>1, <1>2, PTL DEF Spec
<1> QED
  BY <1>3 DEF IdentityKept

-----------------------------------------------------------------------------
LEMMA CarriedInit == Init => Carried
<1>1. Idle.at = "idle"
  BY DEF Idle
<1> QED
  BY <1>1 DEF Init, Carried

(* The action of OtherBondsKept.                                           *)
BondsCarried ==
    \A p \in Processes :
        /\ proc[p].at = "replace" /\ proc'[p].at = "idle" /\ proc'[p].opened # None
        /\ fresh[p] /\ target' # target
        => \A a \in Addresses \ {Namespace(p)} : target'.data.keys[a] = target.data.keys[a]

(* A step that replaces the profile replaces it with the other adapters'   *)
(* keys, and leaves other saves as they are or marks them as overtaken.    *)
LEMMA CarriedStep ==
    Typed /\ Whole /\ Carried /\ [Next]_vars => Carried' /\ BondsCarried
<1> SUFFICES ASSUME Typed, Whole, Carried, [Next]_vars PROVE Carried' /\ BondsCarried
  OBVIOUS
<1>0. target' = target => BondsCarried
  BY DEF BondsCarried
<1>1. ASSUME Continues, fresh' = fresh, target # None => target' = target
      PROVE  Carried' /\ BondsCarried
  <2>1. ASSUME NEW q \in Processes, fresh'[q], proc'[q].at \in {"save", "replace"}
        PROVE  fresh[q] /\ proc'[q] = proc[q] /\ target # None /\ target' = target
    BY <1>1, <2>1 DEF Continues, Carried, KeepsOthers
  <2>2. Carried'
    BY <2>1 DEF Carried, KeepsOthers, Namespace
  <2>3. BondsCarried
    BY <1>1 DEF BondsCarried, Carried, KeepsOthers
  <2> QED
    BY <2>2, <2>3
<1>2. ASSUME NEW p \in Processes, Link(p) PROVE Carried' /\ BondsCarried
  BY <1>1, <1>2, LinkShape
<1>3. ASSUME NEW p \in Processes, Replace(p) PROVE Carried' /\ BondsCarried
  <2>1. /\ target' # None /\ target'.data = proc[p].result
        /\ fresh' = [q \in Processes |-> q = p]
        /\ proc[p].at = "replace" /\ proc'[p].at = "idle"
        /\ \A q \in Processes \ {p} : proc'[q] = proc[q]
    BY <1>3, ReplaceShape
  <2>2. Carried'
    BY <2>1 DEF Carried
  <2>3. fresh[p] => KeepsOthers(p, proc[p].result.keys)
    BY <2>1 DEF Carried
  <2>4. \A q \in Processes : proc[q].at = "replace" /\ proc'[q].at = "idle" => q = p
    BY <2>1
  <2>5. BondsCarried
    BY <2>1, <2>3, <2>4 DEF BondsCarried, KeepsOthers
  <2> QED
    BY <2>2, <2>5
<1>4. CASE Flush
  BY <1>0, <1>4 DEF Flush, Carried, KeepsOthers, Namespace
<1>5. CASE PowerFails
  <2>1. \A p \in Processes : proc'[p].at = "idle" /\ proc'[p].opened = None
    BY <1>5, PowerShape
  <2> QED
    BY <2>1 DEF Carried, BondsCarried
<1>6. ASSUME NEW p \in Processes, NEW peers \in SUBSET Peers, Edit(p, peers)
      PROVE  Carried' /\ BondsCarried
  <2>1. /\ target' = target
        /\ fresh' = [fresh EXCEPT ![p] = TRUE]
        /\ \A q \in Processes \ {p} : proc'[q] = proc[q]
        /\ proc'[p].at = "save" /\ proc'[p].opened = proc[p].opened
        /\ KeepsOthers(p, proc'[p].keys)
    BY <1>6, EditShape
  <2>2. fresh \in [Processes -> BOOLEAN]
    BY DEF Typed, TypeOK
  <2>3. \A q \in Processes \ {p} : fresh'[q] = fresh[q] /\ proc'[q] = proc[q]
    BY <2>1, <2>2
  <2>4. Carried'
    BY <2>1, <2>3 DEF Carried, KeepsOthers, Namespace
  <2> QED
    BY <1>0, <2>1, <2>4
<1>7. ASSUME NEW p \in Processes, Reload(p) PROVE Carried' /\ BondsCarried
  <2>1. /\ target' = target /\ fresh' = fresh
        /\ \A q \in Processes \ {p} : proc'[q] = proc[q]
        /\ proc[p].at = "save" /\ proc'[p].at \in {"idle", "replace"}
        /\ proc'[p].at = "replace" =>
               proc'[p].result.keys = proc[p].keys /\ proc'[p].opened = proc[p].opened
    BY <1>7, ReloadShape
  <2>2. Carried'
    BY <2>1 DEF Carried, KeepsOthers, Namespace
  <2> QED
    BY <1>0, <2>1, <2>2
<1> QED
  BY <1>1, <1>2, <1>3, <1>4, <1>5, <1>6, <1>7, StepShapes

(* Saving the keys of one adapter keeps those of every other adapter,      *)
(* unless another process saved in between.                                *)
THEOREM BondsKept == Spec => OtherBondsKept
<1>1. Typed /\ Whole /\ Carried /\ [Next]_vars => [BondsCarried]_vars
  BY CarriedStep
<1>2. Typed /\ Whole /\ Carried /\ [Next]_vars => Carried'
  BY CarriedStep
<1>3. Spec => [][BondsCarried]_vars
  BY TypedInit, TypedStep, WholeInit, WholeStep, CarriedInit, <1>1, <1>2, PTL DEF Spec
<1> QED
  BY <1>3 DEF OtherBondsKept, BondsCarried

=============================================================================
