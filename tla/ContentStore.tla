---------------------------- MODULE ContentStore ----------------------------
(***************************************************************************)
(* The content-addressed store of tracemantle.storage.put_bytes, at the    *)
(* granularity of its system calls.  Several processes publish payloads    *)
(* into one directory.  Each writes a private temporary file, fsyncs it,   *)
(* hard-links it to the name made of the payload's digest, and unlinks the *)
(* temporary name.  A process can be killed between any two calls and the  *)
(* machine can lose power.                                                 *)
(*                                                                         *)
(* A payload stands for the bytes and, as SHA-256 is taken to be free of   *)
(* collisions, for the target name too: link[r] is the inode the name      *)
(* "<sha256 of r>.json" refers to.  The temporary name and the target name *)
(* are hard links to the SAME inode until the temporary one is removed.    *)
(***************************************************************************)
EXTENDS Naturals, FiniteSets

CONSTANTS Raw,        \* payloads
          Writers,    \* processes that call put_bytes
          Inodes,     \* files the disk can hold
          Size,       \* write(2) calls one payload takes
          NoFile,     \* no such name
          Junk        \* content that is not the payload the name promises

ASSUME StoreAssumption == /\ Size \in Nat \ {0}
                          /\ NoFile \notin Inodes
                          /\ Junk \notin Raw

VARIABLES link,       \* target name -> inode
          data,       \* inode -> what a reader of it sees
          synced,     \* inodes whose data reached the disk
          dirty,      \* target names the directory has not written back
          pending,    \* inodes that still have a .pending- name
          pc, raw, temp, outcome,   \* per writer: next call, arguments, result
          acked,      \* history: payloads put_bytes returned a path for
          orphans,    \* history: temporaries of writers that died, and names
                      \* that a power failure brought back
          erased,     \* removed .pending- names the directory has not written back
          stuck       \* history: temporaries whose unlink failed

files == <<link, data, synced, dirty>>
calls == <<pc, raw, temp, outcome>>
names == <<pending, erased>>
left  == <<orphans, stuck>>
vars  == <<link, data, synced, dirty, pending, pc, raw, temp, outcome, acked,
           orphans, erased, stuck>>

Content    == [raw : Raw \cup {Junk}, len : 0 .. Size]
Whole(r)   == [raw |-> r, len |-> Size]
Blank      == [raw |-> Junk, len |-> 0]
Stored(r)  == link[r] # NoFile /\ data[link[r]] = Whole(r)
Free       == {i \in Inodes : i \notin pending /\ \A r \in Raw : link[r] # i}
Busy       == {w \in Writers : pc[w] # "idle"}

TypeOK == /\ link \in [Raw -> Inodes \cup {NoFile}]
          /\ data \in [Inodes -> Content]
          /\ synced \subseteq Inodes
          /\ dirty \subseteq Raw
          /\ pending \subseteq Inodes
          /\ pc \in [Writers -> {"idle", "write", "fsync", "link", "compare", "unlink"}]
          /\ raw \in [Writers -> Raw \cup {Junk}]
          /\ temp \in [Writers -> Inodes \cup {NoFile}]
          /\ outcome \in [Writers -> {"none", "ok", "error"}]
          /\ acked \subseteq Raw
          /\ orphans \subseteq Inodes
          /\ erased \subseteq Inodes
          /\ stuck \subseteq Inodes

(* A store used for the first time, except that some names may already     *)
(* hold content that does not match them (a damaged or foreign file).      *)
Init == /\ link \in [Raw -> Inodes \cup {NoFile}]
        /\ \A r, s \in Raw : link[r] = link[s] /\ r # s => link[r] = NoFile
        /\ data = [i \in Inodes |-> IF \E r \in Raw : link[r] = i
                                    THEN [raw |-> Junk, len |-> Size] ELSE Blank]
        /\ synced = Inodes
        /\ dirty = {}
        /\ pending = {}
        /\ pc = [w \in Writers |-> "idle"]
        /\ raw = [w \in Writers |-> Junk]
        /\ temp = [w \in Writers |-> NoFile]
        /\ outcome = [w \in Writers |-> "none"]
        /\ acked = {}
        /\ orphans = {}
        /\ erased = {}
        /\ stuck = {}
-----------------------------------------------------------------------------
(* Slips in put_bytes that the runs must catch; no specification uses them. *)
WriteTooFar(w) ==       \* one write(2) too many
    /\ pc[w] = "write"
    /\ data' = [data EXCEPT ![temp[w]] = [raw |-> raw[w], len |-> @.len + 1]]
    /\ pc' = [pc EXCEPT ![w] = IF data[temp[w]].len = Size THEN "fsync" ELSE "write"]
    /\ UNCHANGED <<link, synced, dirty, names, raw, temp, outcome, acked, left>>

FsyncForgotten(w) ==
    /\ pc[w] = "fsync"
    /\ pc' = [pc EXCEPT ![w] = "link"]
    /\ UNCHANGED <<files, names, raw, temp, outcome, acked, left>>

LinkReplaces(w) ==      \* os.replace instead of os.link
    /\ pc[w] = "link"
    /\ link' = [link EXCEPT ![raw[w]] = temp[w]]
    /\ outcome' = [outcome EXCEPT ![w] = "ok"]
    /\ pc' = [pc EXCEPT ![w] = "unlink"]
    /\ UNCHANGED <<data, synced, dirty, names, raw, temp, acked, left>>

CompareSkipped(w) ==    \* an existing name is taken as success
    /\ pc[w] = "compare"
    /\ outcome' = [outcome EXCEPT ![w] = "ok"]
    /\ pc' = [pc EXCEPT ![w] = "unlink"]
    /\ UNCHANGED <<files, names, raw, temp, acked, left>>

CompareRetries(w) ==    \* a differing object sends the writer back to os.link
    /\ pc[w] = "compare"
    /\ pc' = [pc EXCEPT ![w] = IF Stored(raw[w]) THEN "unlink" ELSE "link"]
    /\ UNCHANGED <<files, names, raw, temp, outcome, acked, left>>

UnlinkOnSuccess(w) ==   \* no finally clause
    /\ pc[w] = "unlink"
    /\ pending' = IF outcome[w] = "ok" THEN pending \ {temp[w]} ELSE pending
    /\ temp' = [temp EXCEPT ![w] = NoFile]
    /\ pc' = [pc EXCEPT ![w] = "idle"]
    /\ UNCHANGED <<files, raw, outcome, acked, erased, left>>
-----------------------------------------------------------------------------
(* mkdir and mkstemp: a fresh, empty temporary file in the store itself. *)
OpenTemp(w, r) ==
    /\ pc[w] = "idle"
    /\ \E i \in Free :
         /\ temp' = [temp EXCEPT ![w] = i]
         /\ pending' = pending \cup {i}
         /\ erased' = erased \ {i}
         /\ data' = [data EXCEPT ![i] = Blank]
         /\ synced' = synced \ {i}
    /\ pc' = [pc EXCEPT ![w] = "write"]
    /\ raw' = [raw EXCEPT ![w] = r]
    /\ outcome' = [outcome EXCEPT ![w] = "none"]
    /\ UNCHANGED <<link, dirty, acked, left>>

(* mkdir or mkstemp raises: nothing was created, the error propagates. *)
OpenFails(w, r) ==
    /\ pc[w] = "idle"
    /\ outcome' = [outcome EXCEPT ![w] = "error"]
    /\ raw' = [raw EXCEPT ![w] = r]
    /\ UNCHANGED <<link, data, synced, dirty, names, pc, temp, acked, left>>

(* stream.write and flush reach the file in pieces. *)
Write(w) ==
    /\ pc[w] = "write"
    /\ LET len == data[temp[w]].len + 1 IN
         /\ data' = [data EXCEPT ![temp[w]] = [raw |-> raw[w], len |-> len]]
         /\ pc' = [pc EXCEPT ![w] = IF len = Size THEN "fsync" ELSE "write"]
    /\ UNCHANGED <<link, synced, dirty, names, raw, temp, outcome, acked, left>>

Fsync(w) ==
    /\ pc[w] = "fsync"
    /\ synced' = synced \cup {temp[w]}
    /\ pc' = [pc EXCEPT ![w] = "link"]
    /\ UNCHANGED <<link, data, dirty, names, raw, temp, outcome, acked, left>>

(* os.link creates the target name, or raises FileExistsError and leaves the
   name alone. *)
LinkTarget(w) ==
    /\ pc[w] = "link"
    /\ IF link[raw[w]] = NoFile
       THEN /\ link' = [link EXCEPT ![raw[w]] = temp[w]]
            /\ dirty' = dirty \cup {raw[w]}
            /\ outcome' = [outcome EXCEPT ![w] = "ok"]
            /\ pc' = [pc EXCEPT ![w] = "unlink"]
       ELSE /\ pc' = [pc EXCEPT ![w] = "compare"]
            /\ UNCHANGED <<link, dirty, outcome>>
    /\ UNCHANGED <<data, synced, names, raw, temp, acked, left>>

(* FileExistsError: the existing object is read and must equal the payload. *)
CompareExisting(w) ==
    /\ pc[w] = "compare"
    /\ outcome' = [outcome EXCEPT ![w] = IF data[link[raw[w]]] = Whole(raw[w])
                                         THEN "ok" ELSE "error"]
    /\ pc' = [pc EXCEPT ![w] = "unlink"]
    /\ UNCHANGED <<link, data, synced, dirty, names, raw, temp, acked, left>>

(* A full disk, an I/O error or an unreadable target raises out of the try. *)
CallFails(w) ==
    /\ pc[w] \in {"write", "fsync", "link", "compare"}
    /\ outcome' = [outcome EXCEPT ![w] = "error"]
    /\ pc' = [pc EXCEPT ![w] = "unlink"]
    /\ UNCHANGED <<link, data, synced, dirty, names, raw, temp, acked, left>>

(* The finally clause removes the temporary name; then the call returns the
   path or raises. *)
UnlinkTemp(w) ==
    /\ pc[w] = "unlink"
    /\ pending' = pending \ {temp[w]}
    /\ erased' = erased \cup {temp[w]}
    /\ temp' = [temp EXCEPT ![w] = NoFile]
    /\ pc' = [pc EXCEPT ![w] = "idle"]
    /\ acked' = IF outcome[w] = "ok" THEN acked \cup {raw[w]} ELSE acked
    /\ UNCHANGED <<link, data, synced, dirty, raw, outcome, left>>

(* The unlink in the finally clause raises: the call ends with that error, even
   when the target is linked, and the name stays. *)
UnlinkFails(w) ==
    /\ pc[w] = "unlink"
    /\ stuck' = stuck \cup {temp[w]}
    /\ temp' = [temp EXCEPT ![w] = NoFile]
    /\ pc' = [pc EXCEPT ![w] = "idle"]
    /\ outcome' = [outcome EXCEPT ![w] = "error"]
    /\ UNCHANGED <<files, names, raw, acked, orphans>>
-----------------------------------------------------------------------------
(* The process is killed: no finally clause runs. *)
Kill(w) ==
    /\ pc[w] # "idle"
    /\ pc' = [pc EXCEPT ![w] = "idle"]
    /\ temp' = [temp EXCEPT ![w] = NoFile]
    /\ outcome' = [outcome EXCEPT ![w] = "none"]
    /\ orphans' = orphans \cup {temp[w]}
    /\ UNCHANGED <<link, data, synced, dirty, names, raw, acked, stuck>>

(* The operating system writes the directory back; the code never asks. *)
FlushDirectory ==
    /\ dirty # {} \/ erased # {}
    /\ dirty' = {}
    /\ erased' = {}
    /\ UNCHANGED <<link, data, synced, pending, calls, acked, left>>

(* Power failure: every writer dies, a file that was not fsynced keeps a
   prefix of its data, a target name that was not written back may be gone and
   a .pending- name whose removal was not written back may be there again. *)
Outage ==
    /\ \E lost \in SUBSET dirty :
         /\ link' = [r \in Raw |-> IF r \in lost THEN NoFile ELSE link[r]]
         /\ acked' = acked \ lost
    /\ \E cut \in [Inodes -> 0 .. Size] :
         data' = [i \in Inodes |->
                    IF i \notin synced /\ cut[i] < data[i].len
                    THEN [raw |-> data[i].raw, len |-> cut[i]] ELSE data[i]]
    /\ synced' = Inodes
    /\ dirty' = {}
    /\ pc' = [w \in Writers |-> "idle"]
    /\ temp' = [w \in Writers |-> NoFile]
    /\ outcome' = [w \in Writers |-> "none"]
    /\ \E back \in SUBSET erased :
         /\ pending' = pending \cup back
         /\ orphans' = orphans \cup back \cup {temp[w] : w \in Busy}
    /\ erased' = {}
    /\ UNCHANGED <<raw, stuck>>

Proceed(w) == \/ Write(w) \/ Fsync(w) \/ LinkTarget(w) \/ CompareExisting(w)
              \/ UnlinkTemp(w)

Next == \/ \E w \in Writers : \/ \E r \in Raw : OpenTemp(w, r) \/ OpenFails(w, r)
                              \/ Proceed(w) \/ CallFails(w) \/ UnlinkFails(w) \/ Kill(w)
        \/ FlushDirectory
        \/ Outage

Spec == Init /\ [][Next]_vars

(* A process that is not killed keeps executing. *)
FairSpec == Spec /\ \A w \in Writers : WF_vars(Proceed(w))
-----------------------------------------------------------------------------
(* Nobody ever reads a truncated or foreign payload under a digest name,   *)
(* whatever was killed and whenever the power failed: a name that was not  *)
(* damaged before holds exactly its payload (storage.py:76-94).            *)
PublishedWhole == \A r \in Raw : link[r] # NoFile => data[link[r]].raw = Junk \/ Stored(r)

(* put_bytes returns a path only for an object that is there and intact:   *)
(* losing the race to an identical object counts as success, meeting a     *)
(* damaged one never does.                                                 *)
AckedStored == \A r \in acked : Stored(r)

(* A call that returns a path has removed its .pending- name.  The names   *)
(* that are there are those of running calls, of writers that died (or     *)
(* names a power failure brought back) and of calls whose unlink failed:   *)
(* no other way out of put_bytes, failed writes, links and comparisons     *)
(* included, leaves its name behind (storage.py:81-94).  Whether a name of *)
(* a dead writer is ever swept is not claimed: nothing in the code does it.*)
NoLeftovers ==
    /\ [](pending = orphans \cup stuck \cup {temp[w] : w \in Busy})
    /\ [][\A w \in Writers :
             pc[w] # "idle" /\ pc'[w] = "idle" /\ outcome'[w] = "ok" =>
                temp[w] \notin pending']_vars

(* An object, once visible, is never altered or replaced by a later        *)
(* writer; only a power failure can take away a name that was not written  *)
(* back.                                                                   *)
NeverReplaced ==
    [][\A r \in Raw : link[r] # NoFile =>
          /\ data'[link[r]] = data[link[r]]
          /\ link'[r] = link[r] \/ (link'[r] = NoFile /\ r \in dirty)]_vars

(* Every put_bytes call ends, also the one that finds a damaged object.    *)
PutReturns == \A w \in Writers : pc[w] # "idle" ~> pc[w] = "idle"

(* The promise made to callers. *)
Abstract == INSTANCE ImmutableStore WITH objects <- {r \in Raw : Stored(r)}
ImplementsImmutableStore == Abstract!Spec
=============================================================================
