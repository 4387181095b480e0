---------------------------- MODULE Replication ----------------------------
(***************************************************************************)
(* Synchronisation of a peer: HandleSync of bridge.go on the server, beside *)
(* the writers, drains and room scans of RoomScan and loads of a chunk, and *)
(* ApplySync on the peer, with a network that loses, repeats and reorders  *)
(* responses.                                                              *)
(*                                                                         *)
(* HandleSync counts the active region and asks for its entries one by     *)
(* one, like a room scan but forwards, and goes on where it gets none.     *)
(* With a chunk loaded it goes through the entries of the chunk instead.   *)
(* Nothing in a response says which entries the peer has: ApplySync writes *)
(* them all, as new messages, and stops where the peer's region is full;   *)
(* an entry without data ends the peer's process.                          *)
(***************************************************************************)
EXTENDS RoomScan, SequencesExt

CONSTANTS
    Stamps,      \* SyncRequest.Timestamp
    Chunk,       \* entries of the chunk the server may load
    PeerSlots,   \* entries the peer's region holds
    MaxLoads,    \* model bound: calls of LoadChunk
    MaxSyncs,    \* model bound: calls of HandleSync
    MaxApplies   \* model bound: calls of ApplySync

ASSUME PeerAssumption ==
    /\ PeerSlots \in Nat \ {0} /\ MaxLoads \in Nat /\ MaxSyncs \in Nat
    /\ MaxApplies \in Nat /\ Stamps \subseteq Int

\* An entry in a response: the slot it was read from, its data and time stamp.
\* History: settled says that the slot was, when it was read.
Sent == [slot : Nat, data : [fill : Int, slot : Nat], timestamp : Int,
         settled : BOOLEAN]

\* The data of a chunk are of no region, and a record may have none.
ASSUME ChunkAssumption ==
    /\ Chunk \in Seq(Sent)
    /\ \A x \in 1 .. Len(Chunk) :
          Chunk[x].slot = x - 1 /\ ~Chunk[x].settled /\ Chunk[x].data.fill < 0

VARIABLES
    loads, loading,   \* how many records each LoadChunk has read so far, and
                      \* whether the last one is at it
    chunkLoaded,
    spc, from, n, k,  \* HandleSync: place, request, count and loop index
    array,            \* the load whose slice it ranges over
    results,
    sure,             \* history: the settled ones of the entries it counted
    steady,           \* history: no drain came since
    syncs,
    replies,          \* responses in flight
    apc, resp, a,     \* ApplySync: place, response and loop index
    held,             \* entries in the peer's active region
    applied,          \* history: what ApplySync wrote, in order
    calls             \* history: the entries each of its calls was given

loadVars == <<loads, loading, chunkLoaded>>
syncVars == <<spc, from, n, k, array, results, sure, steady, syncs>>
peerVars == <<apc, resp, a, held, applied, calls>>
replicationVars == <<vars, loadVars, syncVars, replies, peerVars>>

NoResponse == [entries |-> <<>>, counted |-> {}]

SyncTypeOK ==
    /\ TypeOK
    /\ loads \in Seq(0 .. Len(Chunk)) /\ Len(loads) <= MaxLoads
    /\ loading \in BOOLEAN /\ chunkLoaded \in BOOLEAN
    /\ (loading \/ chunkLoaded) => loads # <<>>
    /\ spc \in {"idle", "entry", "chunk", "reply"} /\ from \in Stamps \cup {0}
    /\ n \in 0 .. MaxSlots /\ array \in 0 .. Len(loads)
    /\ k \in Nat /\ (spc = "entry" => k <= n)
    /\ spc = "chunk" => k <= Len(Chunk) /\ array # 0
    /\ results \in Seq(Sent) /\ sure \subseteq Slots
    /\ steady \in BOOLEAN /\ syncs \in 0 .. MaxSyncs
    /\ \A m \in replies \cup {resp} :
          m.entries \in Seq(Sent) /\ m.counted \subseteq Data
    /\ apc \in {"idle", "apply"} /\ a \in 0 .. Len(resp.entries)
    /\ held \in 0 .. PeerSlots /\ applied \in Seq(Sent)
    /\ calls \in Seq(Seq(Sent)) /\ Len(calls) <= MaxApplies

SyncInit ==
    /\ Init
    /\ loads = <<>> /\ loading = FALSE /\ chunkLoaded = FALSE
    /\ spc = "idle" /\ from = 0 /\ n = 0 /\ k = 0 /\ array = 0
    /\ results = <<>> /\ sure = {} /\ steady = FALSE /\ syncs = 0
    /\ replies = {}
    /\ apc = "idle" /\ resp = NoResponse /\ a = 0
    /\ held = 0 /\ applied = <<>> /\ calls = <<>>

\* What a reader makes of the entry in slot s.
Read(s) == [slot |-> s, data |-> At(fill, s).data,
            timestamp |-> At(fill, s).timestamp, settled |-> s \in settled]

-----------------------------------------------------------------------------
(* Plausible bugs, kept to show that the properties notice them. *)

\* SyncEntry that takes a missing entry for a sign to begin again.
SyncRestart ==
    /\ spc = "entry" /\ k < n
    /\ IF Given(k) THEN results' = Append(results, Read(k)) /\ k' = k + 1
       ELSE k' = 0 /\ UNCHANGED results
    /\ UNCHANGED <<vars, loadVars, spc, from, n, array, sure, steady, syncs,
                   replies, peerVars>>

\* SyncDone one entry before the end.
StopShort ==
    /\ spc = "entry" /\ k + 1 >= n
    /\ spc' = "reply"
    /\ UNCHANGED <<vars, loadVars, from, n, k, array, results, sure, steady,
                   syncs, replies, peerVars>>

\* ApplyFails that goes on with the next entry instead of returning.
SkipEntry ==
    /\ apc = "apply" /\ a < Len(resp.entries) /\ held = PeerSlots
    /\ a' = a + 1
    /\ UNCHANGED <<vars, loadVars, syncVars, replies, apc, resp, held,
                   applied, calls>>

\* ApplyEntry that takes a region it has just filled for one that refused.
RepeatLast ==
    /\ apc = "apply" /\ a < Len(resp.entries) /\ held < PeerSlots
    /\ held' = held + 1
    /\ applied' = Append(applied, resp.entries[a + 1])
    /\ a' = IF held' = PeerSlots THEN a ELSE a + 1
    /\ UNCHANGED <<vars, loadVars, syncVars, replies, apc, resp, calls>>

-----------------------------------------------------------------------------
(* The server *)

\* Writers, reservations, drains and room scans.
RegionStep ==
    /\ Next
    /\ steady' = (steady /\ fill' = fill)
    /\ UNCHANGED <<loadVars, spc, from, n, k, array, results, sure, syncs,
                   replies, peerVars>>

\* LoadChunk makes a slice of blanks, also when a chunk is loaded, ...
LoadChunk ==
    /\ ~loading /\ Len(loads) < MaxLoads
    /\ loads' = Append(loads, 0) /\ loading' = TRUE
    /\ UNCHANGED <<vars, chunkLoaded, syncVars, replies, peerVars>>

\* ... fills it record by record ...
LoadRecord ==
    /\ loading /\ Last(loads) < Len(Chunk)
    /\ loads' = [loads EXCEPT ![Len(loads)] = @ + 1]
    /\ UNCHANGED <<vars, loading, chunkLoaded, syncVars, replies, peerVars>>

\* ... and counts as loaded after the last one only.
LoadReturns ==
    /\ loading /\ Last(loads) = Len(Chunk)
    /\ loading' = FALSE /\ chunkLoaded' = TRUE
    /\ UNCHANGED <<vars, loads, syncVars, replies, peerVars>>

\* The file has ended: the rest of the slice stays blank, the flag as it was.
LoadFails ==
    /\ loading /\ Last(loads) < Len(Chunk)
    /\ loading' = FALSE
    /\ UNCHANGED <<vars, loads, chunkLoaded, syncVars, replies, peerVars>>

\* The entries stay, but count as unloaded.
MunmapChunk ==
    /\ chunkLoaded' = FALSE
    /\ UNCHANGED <<vars, loads, loading, syncVars, replies, peerVars>>

\* From the loaded chunk, or from the region, which is counted first.
HandleSync(f) ==
    /\ spc = "idle" /\ syncs < MaxSyncs
    /\ syncs' = syncs + 1
    /\ from' = f /\ k' = 0 /\ steady' = TRUE /\ results' = <<>>
    /\ IF chunkLoaded
       THEN spc' = "chunk" /\ array' = Len(loads) /\ n' = 0 /\ sure' = {}
       ELSE spc' = "entry" /\ array' = 0 /\ n' = committed /\ sure' = Whole
    /\ UNCHANGED <<vars, loadVars, replies, peerVars>>

\* An element of the slice: a record, or a blank a load has not come to yet.
Element(x) ==
    IF x < loads[array] THEN Chunk[x + 1]
    ELSE [slot |-> x, data |-> None, timestamp |-> 0, settled |-> FALSE]

\* The range of the loop is the slice HandleSync found, whatever is loaded or
\* unloaded meanwhile.
ChunkEntry ==
    /\ spc = "chunk" /\ k < Len(Chunk)
    /\ results' = IF Element(k).timestamp > from
                  THEN Append(results, Element(k)) ELSE results
    /\ k' = k + 1
    /\ UNCHANGED <<vars, loadVars, spc, from, n, array, sure, steady, syncs,
                   replies, peerVars>>

\* db_get_entry_cgo(k): no entry there, or one that is not newer, is skipped.
SyncEntry ==
    /\ spc = "entry" /\ k < n
    /\ results' = IF Given(k) /\ At(fill, k).timestamp > from
                  THEN Append(results, Read(k)) ELSE results
    /\ k' = k + 1
    /\ UNCHANGED <<vars, loadVars, spc, from, n, array, sure, steady, syncs,
                   replies, peerVars>>

SyncDone ==
    /\ \/ spc = "entry" /\ k = n
       \/ spc = "chunk" /\ k = Len(Chunk)
    /\ spc' = "reply"
    /\ UNCHANGED <<vars, loadVars, from, n, k, array, results, sure, steady,
                   syncs, replies, peerVars>>

\* Noted with the response: the messages it ought to have.
Reply ==
    /\ spc = "reply"
    /\ replies' = replies \cup
         {[entries |-> results,
           counted |-> IF steady /\ from < 0
                       THEN {Message(fill, s) : s \in sure \cap settled}
                       ELSE {}]}
    /\ spc' = "idle" /\ from' = 0 /\ n' = 0 /\ k' = 0 /\ array' = 0
    /\ results' = <<>> /\ sure' = {} /\ steady' = FALSE
    /\ UNCHANGED <<vars, loadVars, syncs, peerVars>>

(* The network and the peer *)

Lose(m) ==
    /\ replies' = replies \ {m}
    /\ UNCHANGED <<vars, loadVars, syncVars, peerVars>>

\* A response arrives, for the first time or again; or the caller passes the
\* one that failed once more.
ApplySync(m) ==
    /\ apc = "idle" /\ Len(calls) < MaxApplies
    /\ apc' = "apply" /\ resp' = m /\ a' = 0
    /\ calls' = Append(calls, m.entries)
    /\ UNCHANGED <<vars, loadVars, syncVars, replies, held, applied>>

\* The address of the first byte of an entry without data is a panic, before
\* the region is asked.
Empty == resp.entries[a + 1].data = None

ApplyEntry ==
    /\ apc = "apply" /\ a < Len(resp.entries) /\ ~Empty /\ held < PeerSlots
    /\ held' = held + 1
    /\ applied' = Append(applied, resp.entries[a + 1])
    /\ a' = a + 1
    /\ UNCHANGED <<vars, loadVars, syncVars, replies, apc, resp, calls>>

ApplyOver ==
    /\ apc' = "idle" /\ resp' = NoResponse /\ a' = 0
    /\ UNCHANGED <<vars, loadVars, syncVars, replies, applied, calls>>

\* "failed to apply sync entry": those before it stay applied.
ApplyFails ==
    /\ apc = "apply" /\ a < Len(resp.entries) /\ ~Empty /\ held = PeerSlots
    /\ UNCHANGED held
    /\ ApplyOver

\* The peer is started again, with nothing in its region.
ApplyPanics ==
    /\ apc = "apply" /\ a < Len(resp.entries) /\ Empty
    /\ held' = 0
    /\ ApplyOver

ApplyReturns ==
    /\ apc = "apply" /\ a = Len(resp.entries)
    /\ UNCHANGED held
    /\ ApplyOver

\* The peer's own clients fill its region, and drains empty it.
PeerWrite ==
    /\ held < PeerSlots
    /\ held' = held + 1
    /\ UNCHANGED <<vars, loadVars, syncVars, replies, apc, resp, a, applied,
                   calls>>

PeerDrain ==
    /\ held > 0
    /\ held' = 0
    /\ UNCHANGED <<vars, loadVars, syncVars, replies, apc, resp, a, applied,
                   calls>>

LoadStep == \/ LoadChunk \/ LoadRecord \/ LoadReturns \/ LoadFails
            \/ MunmapChunk

ServerStep ==
    \/ ChunkEntry \/ SyncEntry \/ SyncDone \/ Reply
    \/ \E f \in Stamps : HandleSync(f)

PeerStep ==
    \/ ApplyEntry \/ ApplyFails \/ ApplyPanics \/ ApplyReturns
    \/ PeerWrite \/ PeerDrain
    \/ \E m \in replies : ApplySync(m)

SyncNext ==
    \/ RegionStep \/ LoadStep \/ ServerStep \/ PeerStep
    \/ \E m \in replies : Lose(m)

SyncSpec == SyncInit /\ [][SyncNext]_replicationVars

-----------------------------------------------------------------------------
\* The entries of a response are in the order of their slots, and none is a
\* message twice, whatever drains put under the loop.  An entry that was
\* settled when it was read is not older than any before it; what was read
\* from a slot that was not may be of a fill long drained.
Ordered(s) ==
    \A y \in 1 .. Len(s) :
        /\ s[y].data.fill >= 0 => s[y].data.slot = s[y].slot
        /\ \A x \in 1 .. y - 1 :
              /\ s[x].slot < s[y].slot
              /\ s[y].settled => s[x].data.fill <= s[y].data.fill

ResponseOrdered == Ordered(results)

\* Without a drain since it counted, a response to a request from before all
\* time has every message that was counted and settled, and still is, however
\* many are written or committed around it; a response to any later request
\* has none of them, however new they are: raw writes have the time stamp 0.
ResponseComplete ==
    (spc = "reply" /\ steady) =>
        \A s \in sure \cap settled :
            IF from < 0
            THEN \E x \in 1 .. Len(results) : results[x].data = Message(fill, s)
            ELSE \A x \in 1 .. Len(results) : results[x].slot # s

\* A synchronisation that went through copies: when ApplySync is about to
\* return nil, every message the server had settled when it counted, and when
\* it answered, with no drain in between, has been written to the peer,
\* whatever was lost, repeated, drained or written on the peer meanwhile.
SyncCopies ==
    (apc = "apply" /\ a = Len(resp.entries)) =>
        \A d \in resp.counted :
            \E y \in 1 .. Len(applied) : applied[y].data = d

\* The peer has an entry at most once for each call of ApplySync that was
\* given it: duplicates come from repeated responses, overlapping requests
\* and retries after a failure half way, and from nothing else.
Same(e, f) == e.slot = f.slot /\ e.data = f.data
Copies(e) == {x \in 1 .. Len(applied) : Same(applied[x], e)}
Calls(e) == {c \in 1 .. Len(calls) :
                \E y \in 1 .. Len(calls[c]) : Same(calls[c][y], e)}
OncePerCall ==
    \A x \in 1 .. Len(applied) :
        Cardinality(Copies(applied[x])) <= Cardinality(Calls(applied[x]))

-----------------------------------------------------------------------------
(* The inductive invariants on which the properties rest. *)

\* The loop is past the slots of the entries it has, none of which is of a
\* fill to come.
OrderInv ==
    /\ Ordered(results)
    /\ \A x \in 1 .. Len(results) :
          /\ results[x].data.fill <= fill
          /\ spc \in {"entry", "chunk"} => results[x].slot < k

\* Without a drain, the loop still has every settled entry it counted before
\* it, or else it is in the response, or not newer than the request.
Answered(s) ==
    IF from < 0
    THEN s < k => \E x \in 1 .. Len(results) : results[x].data = Message(fill, s)
    ELSE \A x \in 1 .. Len(results) : results[x].slot # s

CompleteInv ==
    (spc # "idle" /\ steady) =>
        /\ sure \subseteq done /\ sure \subseteq 0 .. n - 1
        /\ spc = "entry" => n <= committed
        /\ spc = "chunk" => n = 0
        /\ spc = "reply" => n <= k
        /\ \A s \in sure \cap settled : Answered(s)

\* Every response has what it ought to, and no slot twice.
ReplyInv ==
    \A m \in replies \cup {resp} :
        /\ \A d \in m.counted :
              \E y \in 1 .. Len(m.entries) : m.entries[y].data = d
        /\ \A x, y \in 1 .. Len(m.entries) :
              x < y => m.entries[x].slot < m.entries[y].slot

\* What ApplySync has passed is written; what is ahead of it was written less
\* often than it was given.
Ahead(e) ==
    apc = "apply" /\ \E y \in a + 1 .. Len(resp.entries) : Same(resp.entries[y], e)

ApplyInv ==
    /\ apc = "apply" =>
          \A y \in 1 .. a :
              \E x \in 1 .. Len(applied) : applied[x] = resp.entries[y]
    /\ \A e \in Sent :
          /\ Cardinality(Copies(e)) <= Cardinality(Calls(e))
          /\ Ahead(e) => Cardinality(Copies(e)) < Cardinality(Calls(e))

SyncInv ==
    SyncTypeOK /\ RoomInv /\ OrderInv /\ CompleteInv /\ ReplyInv /\ ApplyInv
=============================================================================
