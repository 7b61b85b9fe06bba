------------------------------- MODULE Digest -------------------------------
(* Large tool responses: the MCP wrap (internal/mcp/digest_wrap.go) hands    *)
(* the model a digest and a call_id, the raw payload goes to a directory the *)
(* FilesystemStore (internal/digest/store.go) keeps under a byte cap, and    *)
(* retrieve_raw reads it back.  The directory is one fixed path under the    *)
(* temporary directory, so daemons on a host share it, and it outlives them. *)
(*                                                                           *)
(* A payload is its size: sizes stand for bytes, the two thresholds lie      *)
(* among them, and a call that runs again after a crash may return another   *)
(* size.  What the JSON pruner makes of a payload is usually smaller, and a   *)
(* little larger when it had only summaries to add.                          *)
EXTENDS Naturals, Sequences, FiniteSets, SequencesExt, FiniteSetsExt

CONSTANTS
    Procs,              \* daemons sharing the directory
    Calls,              \* tool calls; a call's id is the name of its file
    ProcOf,             \* call |-> the daemon whose session makes it
    Temps,              \* names os.CreateTemp may give
    Names,              \* Temps and Calls in the order ReadDir lists them
    Sizes,              \* sizes a response may have
    Threshold,          \* DefaultDigestThreshold
    MaxPassthroughBytes,
    MaxTotalBytes,
    MaxFaults,          \* bound: crashes and failing file operations
    None

VARIABLES
    store,      \* daemon |-> [at, order, bytes]: FilesystemStore, or none
    disk,       \* file name |-> [size, call, whole], or None
    mutex,      \* daemon |-> the call whose Put holds the store's mutex
    run,        \* call |-> where its tool call stands
    temp,       \* call |-> the temporary file of its Put
    shown,      \* call |-> what the model was handed
    got,        \* call |-> what retrieve_raw last gave for it
    stuck,      \* history: names whose removal failed
    faults

vars == <<store, disk, mutex, run, temp, shown, got, stuck, faults>>

Down == [at |-> "down", order |-> <<>>, bytes |-> 0]
Idle == [at |-> "idle", size |-> 0]

Init ==
    /\ store = [p \in Procs |-> Down]
    /\ disk = [n \in Range(Names) |-> None]
    /\ mutex = [p \in Procs |-> None]
    /\ run = [c \in Calls |-> Idle]
    /\ temp = [c \in Calls |-> None]
    /\ shown = [c \in Calls |-> None]
    /\ got = [c \in Calls |-> None]
    /\ stuck = {}
    /\ faults = 0

Fails == faults < MaxFaults /\ faults' = faults + 1
OnDisk == {n \in Range(Names) : disk[n] # None}
Bytes(order) == FoldLeft(LAMBDA sum, e : sum + e.bytes, 0, order)
Indexed(p, n) == \E i \in DOMAIN store[p].order : store[p].order[i].name = n
Without(order, n) == SelectSeq(order, LAMBDA e : e.name # n)

-----------------------------------------------------------------------------
(* NewFilesystemStore: what is in the directory is indexed by name, files a  *)
(* dead process left half-written and another's temporaries included.  A     *)
(* directory that cannot be made leaves the wrap without a store.            *)
indexExistingFinished ==
    LET found == SelectSeq(Names, LAMBDA n : n \in OnDisk /\ n \notin Temps)
    IN  [i \in DOMAIN found |-> [name |-> found[i], bytes |-> disk[found[i]].size]]

indexExisting ==
    LET found == SelectSeq(Names, LAMBDA n : n \in OnDisk)
    IN  [i \in DOMAIN found |-> [name |-> found[i], bytes |-> disk[found[i]].size]]

NewFilesystemStore(p) ==
    /\ store[p].at = "down"
    /\ \/ /\ store' = [store EXCEPT ![p] = [at |-> "up", order |-> indexExisting,
                                            bytes |-> Bytes(indexExisting)]]
          /\ UNCHANGED faults
       \/ store' = [store EXCEPT ![p].at = "none"] /\ Fails
    /\ UNCHANGED <<disk, mutex, run, temp, shown, got, stuck>>

(* The process dies: nothing of its calls in flight reached the model, so    *)
(* they run again; the directory stays as it is.                             *)
Crash(p) ==
    /\ store[p].at # "down" /\ Fails
    /\ store' = [store EXCEPT ![p] = Down]
    /\ mutex' = [mutex EXCEPT ![p] = None]
    /\ LET lost == {c \in Calls : ProcOf[c] = p}
       IN  /\ run' = [c \in Calls |-> IF c \in lost /\ run[c].at # "done" THEN Idle ELSE run[c]]
           /\ temp' = [c \in Calls |-> IF c \in lost THEN None ELSE temp[c]]
           /\ got' = [c \in Calls |-> IF c \in lost /\ got[c] = "looking" THEN None ELSE got[c]]
    /\ UNCHANGED <<disk, shown, stuck>>

-----------------------------------------------------------------------------
(* digestingTool.Run and digest.Process.                                     *)

(* The wrapped tool answers.  Its error, and a response under the threshold, *)
(* go back as they are.                                                      *)
RunTool(c) ==
    LET p == ProcOf[c]
    IN  /\ store[p].at # "down" /\ run[c].at = "idle"
        /\ \E s \in Sizes :
              IF s < Threshold
              THEN /\ run' = [run EXCEPT ![c] = [at |-> "done", size |-> s]]
                   /\ shown' = [shown EXCEPT ![c] = [size |-> s, callID |-> FALSE, stored |-> FALSE]]
              ELSE /\ run' = [run EXCEPT ![c] = [at |-> IF store[p].at = "up" THEN "put" ELSE "route",
                                                 size |-> s]]
                   /\ UNCHANGED shown
        /\ UNCHANGED <<store, disk, mutex, temp, got, stuck, faults>>

(* Put takes the mutex, drops the call's earlier entry, and evicts from the  *)
(* front until the payload fits; one larger than the cap is refused after    *)
(* that.  Removals are best effort.                                          *)
RECURSIVE evict(_, _)
evict(order, size) ==
    IF order # <<>> /\ Bytes(order) + size > MaxTotalBytes THEN evict(Tail(order), size) ELSE order

Admit(c, kept) ==
    LET p == ProcOf[c]
        order == evict(kept, run[c].size)
        gone == {n \in Range(Names) : Indexed(p, n)} \ {order[i].name : i \in DOMAIN order}
    IN  /\ run[c].at = "put" /\ mutex[p] = None
        /\ \E left \in SUBSET {n \in gone : disk[n] # None} :
              /\ IF left = {} THEN UNCHANGED faults ELSE Fails
              /\ stuck' = stuck \cup left
              /\ disk' = [n \in DOMAIN disk |-> IF n \in gone \ left THEN None ELSE disk[n]]
        /\ store' = [store EXCEPT ![p].order = order, ![p].bytes = Bytes(order)]
        /\ IF run[c].size > MaxTotalBytes
           THEN run' = [run EXCEPT ![c].at = "route"] /\ UNCHANGED mutex
           ELSE run' = [run EXCEPT ![c].at = "write"] /\ mutex' = [mutex EXCEPT ![p] = c]
        /\ UNCHANGED <<temp, shown, got>>

PutKeeping(c) == Admit(c, store[ProcOf[c]].order)
Put(c) == Admit(c, Without(store[ProcOf[c]].order, c))

Release(c) == mutex' = [mutex EXCEPT ![ProcOf[c]] = None]
PutFails(c) == Fails /\ Release(c) /\ run' = [run EXCEPT ![c].at = "route"]

(* atomicWriteFile: a temporary beside the target, then a rename.  The       *)
(* deferred removal clears the temporary on the error paths.                 *)
WriteTemp(c) ==
    /\ run[c].at = "write" /\ temp[c] = None
    /\ \/ \E t \in Temps :
             /\ disk[t] = None
             /\ disk' = [disk EXCEPT ![t] = [size |-> run[c].size, call |-> c, whole |-> FALSE]]
             /\ temp' = [temp EXCEPT ![c] = t]
             /\ UNCHANGED <<run, mutex, faults>>
       \/ PutFails(c) /\ UNCHANGED <<disk, temp>>
    /\ UNCHANGED <<store, shown, got, stuck>>

Rename(c) ==
    LET p == ProcOf[c]
        s == run[c].size
    IN  /\ run[c].at = "write" /\ temp[c] # None
        /\ temp' = [temp EXCEPT ![c] = None]
        /\ \/ /\ disk' = [disk EXCEPT ![temp[c]] = None, ![c] = [size |-> s, call |-> c, whole |-> TRUE]]
              /\ store' = [store EXCEPT ![p].order = Append(@, [name |-> c, bytes |-> s]),
                                        ![p].bytes = @ + s]
              /\ run' = [run EXCEPT ![c].at = "route"]
              /\ Release(c) /\ UNCHANGED faults
           \/ disk' = [disk EXCEPT ![temp[c]] = None] /\ PutFails(c) /\ UNCHANGED store
        /\ UNCHANGED <<shown, got, stuck>>

(* route and the methods.  The payload is a marshalled map, so it is always  *)
(* JSON, and mast wires no LLM fallback.  A failed Put only adds metadata:   *)
(* the result carries the call's id either way.                              *)
looksLikeJSON(size) == TRUE
route(size) == IF size >= Threshold /\ looksLikeJSON(size) THEN "structural_json" ELSE "passthrough"
PruneJSON(size) == 1..(size + 1)
truncatePassthrough(size) == Min({size, MaxPassthroughBytes})
Digests(size) == IF route(size) = "structural_json" THEN PruneJSON(size) ELSE {truncatePassthrough(size)}

Process(c) ==
    /\ run[c].at = "route"
    /\ \E d \in Digests(run[c].size) :
          shown' = [shown EXCEPT ![c] = [size |-> d, callID |-> TRUE,
                                         stored |-> store[ProcOf[c]].at = "up"]]
    /\ run' = [run EXCEPT ![c].at = "done"]
    /\ UNCHANGED <<store, disk, mutex, temp, got, stuck, faults>>

-----------------------------------------------------------------------------
(* retrieve_raw: Get looks in the index under the mutex and reads the file   *)
(* after letting it go.                                                      *)
Look(c) ==
    LET p == ProcOf[c]
    IN  /\ run[c].at = "done" /\ shown[c].callID /\ store[p].at = "up"
        /\ mutex[p] = None /\ got[c] # "looking"
        /\ got' = [got EXCEPT ![c] = IF Indexed(p, c) THEN "looking" ELSE "not found"]
        /\ UNCHANGED <<store, disk, mutex, run, temp, shown, stuck, faults>>

Get(c) ==
    /\ got[c] = "looking"
    /\ got' = [got EXCEPT ![c] =
                 CASE disk[c] = None -> "not found"
                   [] disk[c] = [size |-> run[c].size, call |-> c, whole |-> TRUE] -> "the payload"
                   [] OTHER -> "something else"]
    /\ UNCHANGED <<store, disk, mutex, run, temp, shown, stuck, faults>>

Next ==
    \/ \E p \in Procs : NewFilesystemStore(p) \/ Crash(p)
    \/ \E c \in Calls : \/ RunTool(c) \/ Put(c) \/ WriteTemp(c) \/ Rename(c)
                        \/ Process(c) \/ Look(c) \/ Get(c)

Spec == Init /\ [][Next]_vars

-----------------------------------------------------------------------------
TypeOK ==
    /\ \A p \in Procs : store[p].at \in {"down", "up", "none"} /\ mutex[p] \in Calls \cup {None}
    /\ \A c \in Calls : /\ run[c].at \in {"idle", "put", "write", "route", "done"}
                        /\ temp[c] \in Temps \cup {None}
    /\ stuck \subseteq Range(Names)
    /\ faults \in 0..MaxFaults

(* DiskBounded: however often the daemons die between a temporary file and   *)
(* its rename, the directory holds no more than one cap for each daemon that *)
(* shares it, removals that failed aside (Put's eviction, indexExisting).    *)
DiskBounded ==
    FoldSet(LAMBDA n, sum : sum + disk[n].size, 0, OnDisk \ stuck)
        <= Cardinality(Procs) * MaxTotalBytes

(* RawIsTheDigested: what retrieve_raw returns for a call_id is the payload  *)
(* the model's digest was made from, whole, never an earlier run's and never *)
(* half of it, whenever the digest was made with a store (Put drops the      *)
(* prior entry before it writes, and writes by rename).                      *)
RawIsTheDigested ==
    \A c \in Calls \ stuck : got[c] = "something else" => ~shown[c].stored
=============================================================================
