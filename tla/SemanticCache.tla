--------------------------- MODULE SemanticCache ---------------------------
(***************************************************************************)
(* The containment cache of a semantic view: requests that look for a      *)
(* stored result which answers their query, ask the provider otherwise,    *)
(* and store what it said.  A bucket of descriptors indexes the results.   *)
(* It is read, changed and written back by requests of all web workers     *)
(* under an owner-token lease that may expire under its owner.             *)
(*                                                                         *)
(* The program gives the lease a Redis client of its own, so no write can  *)
(* be fenced by it in one command: the owner is checked, and its lease     *)
(* renewed, immediately before.  (Writes fenced by a script need a client  *)
(* shared with the cache, which only tests inject.)                        *)
(* Which descriptors prove to answer a query (cache_policy) and for how    *)
(* long they may is left open.                                             *)
(***************************************************************************)
EXTENDS Naturals, FiniteSets

CONSTANTS
  Clients,    \* requests of the web workers, at most one at a time of each
  Keys,       \* value keys: what is queried
  Capacity,   \* MAX_SEMANTIC_CACHE_DESCRIPTORS_PER_BUCKET
  MaxStores   \* bound: how many results are ever stored

\* The lease in nobody's hands, and in those of a call that is no more.
Free == "free"
Stray == "stray"

ASSUME CacheAssumption ==
  /\ IsFiniteSet(Keys) /\ Keys # {}
  /\ Capacity \in Nat \ {0} /\ MaxStores \in Nat
  /\ Clients \cap {Free, Stray} = {}

VARIABLES
  lease,      \* who owns it: a client, nobody, or a call that is no more
  bucket,     \* the descriptors
  values,     \* the nonce of each key's stored result
  last,       \* the last nonce
  requests,   \* what each client is doing
  \* Auxiliary: whether anything has failed, expired or been evicted, and
  \* whether a lease ran out between the check that renewed it and the write
  \* that follows at once.
  disturbed, lapsed

vars == <<lease, bucket, values, last, requests, disturbed, lapsed>>
store == <<bucket, values>>
aux == <<disturbed, lapsed>>

None == 0

\* Nonces count up, and so stand for the timestamps as well.
Nonces == 1..MaxStores
Descriptors == [key : Keys, nonce : Nonces]
KeysOf(ds) == {d.key : d \in ds}

Pcs == {"idle", "lookup", "probe", "hit", "provider", "store", "acquire", "read",
        "recheck", "setBucket", "setValue", "delete", "release"}

\* `ds' are descriptors as they were read and `todo' those still to look at,
\* `keys' the value keys to prune or to delete, `nonce' that of the result to
\* be stored or served.
Requests ==
  [pc : Pcs, key : Keys, force : BOOLEAN, job : {"prune", "store"},
   ds : SUBSET Descriptors, todo : SUBSET Descriptors, keys : SUBSET Keys,
   nonce : Nonces \cup {None}, checked : BOOLEAN]

Blank == [pc |-> "idle", key |-> CHOOSE k \in Keys : TRUE, force |-> FALSE,
          job |-> "store", ds |-> {}, todo |-> {}, keys |-> {}, nonce |-> None,
          checked |-> FALSE]

TypeOK ==
  /\ disturbed \in BOOLEAN /\ lapsed \in BOOLEAN
  /\ lease \in Clients \cup {Free, Stray}
  /\ bucket \subseteq Descriptors /\ Cardinality(bucket) <= Capacity
  /\ values \in [Keys -> Nonces \cup {None}]
  /\ last \in Nonces \cup {None}
  /\ requests \in [Clients -> Requests]

Init ==
  /\ lease = Free
  /\ bucket = {} /\ values = [k \in Keys |-> None] /\ last = None
  /\ requests = [c \in Clients |-> Blank]
  /\ disturbed = FALSE /\ lapsed = FALSE

----------------------------------------------------------------------------
At(c, pc) == requests[c].pc = pc
Become(c, r) == requests' = [requests EXCEPT ![c] = r]
Goto(c, pc) == Become(c, [requests[c] EXCEPT !.pc = pc])
Answer(c) == Become(c, Blank)

Matches(d) == values[d.key] = d.nonce

(***************************************************************************)
(* SemanticCacheService.execute                                            *)
(***************************************************************************)
Ask(c) ==
  /\ At(c, "idle")
  /\ \E force \in BOOLEAN :
       Become(c, [Blank EXCEPT !.pc = IF force THEN "provider" ELSE "lookup",
                               !.force = force])
  /\ UNCHANGED <<lease, store, last, aux>>

\* lookup reads the descriptors, of which some prove to answer the query, ...
Lookup(c) ==
  /\ At(c, "lookup")
  /\ \E eligible \in SUBSET bucket :
       Become(c, [requests[c] EXCEPT !.pc = "probe", !.todo = eligible])
  /\ UNCHANGED <<lease, store, last, aux>>

\* ... and then their values one by one until one is the descriptor's.
Probe(c) ==
  LET r == requests[c] IN
  /\ At(c, "probe")
  /\ \/ \E d \in r.todo :
          Become(c, IF Matches(d)
                    THEN [r EXCEPT !.pc = "hit", !.todo = {d},
                                   !.nonce = values[d.key]]
                    ELSE [r EXCEPT !.todo = @ \ {d}, !.keys = @ \cup {d.key}])
     \/ /\ r.todo = {}
        /\ IF r.keys = {} THEN Goto(c, "provider")
           ELSE Become(c, [r EXCEPT !.pc = "acquire", !.job = "prune"])
  /\ UNCHANGED <<lease, store, last, aux>>

\* A stored result that cannot be transformed counts as a miss.
Serve(c) ==
  LET r == requests[c] IN
  /\ At(c, "hit")
  /\ \/ Answer(c)
     \/ Become(c, [r EXCEPT !.pc = "probe", !.todo = {}, !.nonce = None])
  /\ UNCHANGED <<lease, store, last, aux>>

\* The provider fails, or its result is too large (or MaxStores is reached).
Provide(c) ==
  /\ At(c, "provider")
  /\ \/ Answer(c)
     \/ last < MaxStores /\ Goto(c, "store")
  /\ UNCHANGED <<lease, store, last, aux>>

\* _is_registered
Registered(key) == \E d \in bucket : d.key = key /\ Matches(d)

\* The query's key matters from here on.  Unless the request is forced, a
\* result that was stored meanwhile will do.
Store(c) ==
  /\ At(c, "store")
  /\ \E key \in Keys :
       IF (~requests[c].force /\ Registered(key)) \/ last = MaxStores
       THEN Answer(c) /\ UNCHANGED last
       ELSE /\ last' = last + 1
            /\ Become(c, [Blank EXCEPT !.pc = "acquire", !.key = key,
                                       !.nonce = last + 1])
  /\ UNCHANGED <<lease, store, aux>>

(***************************************************************************)
(* SemanticCacheCoordinator.mutate                                         *)
(***************************************************************************)
\* Whatever became of the change, a pruning request goes on to the provider.
AfterMutate(c) ==
  IF requests[c].job = "prune"
  THEN Become(c, [requests[c] EXCEPT !.pc = "provider", !.ds = {}, !.todo = {},
                                     !.keys = {}, !.checked = FALSE])
  ELSE Answer(c)

Acquire(c) ==
  /\ At(c, "acquire")
  /\ lease = Free
  /\ lease' = c
  /\ Goto(c, "read")
  /\ UNCHANGED <<store, last, aux>>

\* Mutant of GiveUp: a call waits until the lease is free.
WaitOn(c) == FALSE /\ UNCHANGED vars

\* wait_seconds are over.
GiveUp(c) ==
  /\ At(c, "acquire")
  /\ lease # Free
  /\ AfterMutate(c)
  /\ UNCHANGED <<lease, store, last, aux>>

Release(c) ==
  /\ At(c, "release")
  /\ lease' = IF lease = c THEN Free ELSE lease
  /\ AfterMutate(c)
  /\ UNCHANGED <<store, last, aux>>

(***************************************************************************)
(* The changes: register and prune.  Each reads the bucket, computes what  *)
(* is to be and writes it back.                                            *)
(***************************************************************************)
Read(c) ==
  LET r == requests[c] IN
  /\ At(c, "read")
  /\ Become(c,
       IF r.job = "store" THEN [r EXCEPT !.pc = "setBucket", !.ds = bucket]
       ELSE [r EXCEPT !.pc = "recheck", !.ds = bucket,
                      !.todo = {d \in bucket : d.key \in r.keys}])
  /\ UNCHANGED <<lease, store, last, aux>>

\* Mutant of Recheck: what was missing is given up.
RecheckNothing(c) ==
  /\ At(c, "recheck")
  /\ Become(c, [requests[c] EXCEPT !.pc = "setBucket", !.todo = {},
                                   !.ds = @ \ requests[c].todo])
  /\ UNCHANGED <<lease, store, last, aux>>

\* Values that were missing are looked at again before they are given up.
Recheck(c) ==
  LET r == requests[c] IN
  /\ At(c, "recheck")
  /\ \/ \E d \in r.todo :
          Become(c, [r EXCEPT !.todo = @ \ {d},
                              !.ds = IF Matches(d) THEN @ ELSE @ \ {d}])
     \/ r.todo = {} /\ Goto(c, "setBucket")
  /\ UNCHANGED <<lease, store, last, aux>>

\* check_owner: immediately before every write the lease is renewed, if it is
\* still the request's own.
CheckOwner(c) ==
  /\ ~requests[c].checked
  /\ requests[c].pc \in {"setBucket", "setValue"}
  /\ Become(c, IF lease = c THEN [requests[c] EXCEPT !.checked = TRUE]
                            ELSE [requests[c] EXCEPT !.pc = "release"])
  /\ UNCHANGED <<lease, store, last, aux>>

\* Mutant of MayWrite: a lease that was acquired is taken for granted.
MayAlwaysWrite(c) == TRUE

MayWrite(c) == requests[c].checked

\* Mutant of Newest: one too many.
NewestAndOne(ds) ==
  {d \in ds : Cardinality({e \in ds : e.nonce > d.nonce}) <= Capacity}

Newest(ds) ==
  {d \in ds : Cardinality({e \in ds : e.nonce > d.nonce}) < Capacity}

Own(r) == [key |-> r.key, nonce |-> r.nonce]

\* Mutant of Retained: the older descriptor of the key stays.
RetainedAll(r) == r.ds \cup {Own(r)}

Retained(r) == {d \in r.ds : d.key # r.key} \cup {Own(r)}

\* Mutant of Evicted: the new descriptor is not expected to be the oldest.
EvictedOthers(r) == KeysOf(r.ds) \ (KeysOf(Newest(Retained(r))) \cup {r.key})

\* The new descriptor may itself be older than all others by now.
Evicted(r) == KeysOf(Retained(r)) \ KeysOf(Newest(Retained(r)))

SetBucket(c) ==
  LET r == requests[c] IN
  /\ At(c, "setBucket")
  /\ MayWrite(c)
  /\ \/ /\ r.job = "store"
        /\ bucket' = Newest(Retained(r))
        /\ Become(c, [r EXCEPT !.pc = "setValue", !.ds = {}, !.keys = Evicted(r),
                               !.checked = FALSE])
     \/ /\ r.job = "prune"
        /\ bucket' = r.ds
        /\ Goto(c, "release")
  /\ UNCHANGED <<lease, values, last, aux>>

SetValue(c) ==
  LET r == requests[c] IN
  /\ At(c, "setValue")
  /\ MayWrite(c)
  /\ values' = [values EXCEPT ![r.key] = r.nonce]
  /\ Goto(c, "delete")
  /\ UNCHANGED <<lease, bucket, last, aux>>

\* The values of evicted descriptors are deleted without asking for the owner.
Delete(c) ==
  LET r == requests[c] IN
  /\ At(c, "delete")
  /\ \/ \E k \in r.keys :
          /\ values' = [values EXCEPT ![k] = None]
          /\ Become(c, [r EXCEPT !.keys = @ \ {k}])
     \/ r.keys = {} /\ Goto(c, "release") /\ UNCHANGED values
  /\ UNCHANGED <<lease, bucket, last, aux>>

(***************************************************************************)
(* What may go wrong                                                       *)
(***************************************************************************)
\* A cache command raises, whether or not it was executed: a lookup goes to
\* the provider and stores nothing, a change is abandoned.
CommandFails(c) ==
  /\ \/ requests[c].pc \in {"lookup", "probe", "store"} /\ Answer(c)
     \/ /\ requests[c].pc \in {"read", "recheck", "setBucket", "setValue", "delete"}
        /\ Goto(c, "release")
  /\ disturbed' = TRUE
  /\ UNCHANGED <<lease, store, last, lapsed>>

\* A command on the lease raises: a token may stay that nobody will release.
LeaseFails(c) ==
  /\ \/ At(c, "acquire") /\ lease' \in {lease, IF lease = Free THEN Stray ELSE lease}
     \/ At(c, "release") /\ lease' \in (IF lease = c THEN {Free, Stray} ELSE {lease})
  /\ AfterMutate(c)
  /\ disturbed' = TRUE
  /\ UNCHANGED <<store, last, lapsed>>

\* The web worker dies.
Crash(c) ==
  /\ ~At(c, "idle")
  /\ Answer(c)
  /\ lease' = IF lease = c THEN Stray ELSE lease
  /\ disturbed' = TRUE
  /\ UNCHANGED <<store, last, lapsed>>

\* A request that has just renewed its lease and is about to write.
Writing(c) == requests[c].checked /\ requests[c].pc \in {"setBucket", "setValue"}

\* The lease is not renewed in time.
Expire ==
  /\ lease # Free
  /\ lease' = Free
  /\ disturbed' = TRUE
  /\ lapsed' = (lapsed \/ \E c \in Clients : lease = c /\ Writing(c))
  /\ UNCHANGED <<store, last, requests>>

\* The cache drops what has expired, or what it has no room for.
DropValue(k) ==
  /\ values[k] # None
  /\ values' = [values EXCEPT ![k] = None]
  /\ disturbed' = TRUE
  /\ UNCHANGED <<lease, bucket, last, requests, lapsed>>

DropBucket ==
  /\ bucket # {}
  /\ bucket' = {}
  /\ disturbed' = TRUE
  /\ UNCHANGED <<lease, values, last, requests, lapsed>>

----------------------------------------------------------------------------
Serving(c) == Lookup(c) \/ Probe(c) \/ Serve(c) \/ Provide(c) \/ Store(c)

Mutating(c) ==
  \/ Acquire(c) \/ GiveUp(c) \/ Read(c) \/ Recheck(c) \/ CheckOwner(c)
  \/ SetBucket(c) \/ SetValue(c) \/ Delete(c) \/ Release(c)

Next ==
  \/ \E c \in Clients : \/ Ask(c) \/ Serving(c) \/ Mutating(c)
                        \/ CommandFails(c) \/ LeaseFails(c) \/ Crash(c)
  \/ Expire \/ DropBucket
  \/ \E k \in Keys : DropValue(k)

\* A request goes on until it is answered.  Leases need not expire.
Fairness == \A c \in Clients : WF_vars(Serving(c) \/ Mutating(c))

Spec == Init /\ [][Next]_vars /\ Fairness

----------------------------------------------------------------------------
(***************************************************************************)
(* Properties                                                              *)
(***************************************************************************)
\* The owner of the lease has read every descriptor that its write replaces:
\* no takeover lets two changes of the bucket start from the same contents,
\* unless a write takes longer than the lease it has just renewed.
OwnerHasReadBucket ==
  ~lapsed => \A c \in Clients :
    lease = c /\ requests[c].pc \in {"recheck", "setBucket"} =>
      \A d \in bucket :
        \/ d \in requests[c].ds
        \/ requests[c].job = "prune" /\ d.key \in requests[c].keys

\* No write of the bucket loses a descriptor that still serves its value,
\* except for another result of its key or to make room for newer ones,
\* whatever other writers, also ones that have lost their lease, do meanwhile;
\* again unless a write takes longer than a lease.
ServableIsKept ==
  [][~lapsed => \A c \in Clients : \A d \in bucket \ bucket' :
       requests[c] # requests'[c] /\ At(c, "setBucket") /\ Matches(d) =>
         /\ requests[c].job = "store"
         /\ \/ d.key = requests[c].key
            \/ /\ Cardinality(bucket') = Capacity
               /\ \A e \in bucket' : e.nonce > d.nonce]_vars

\* While nothing fails, every stored result is in the index when no change is
\* under way: what is evicted from the one is deleted from the other.
NoOrphans ==
  ~disturbed /\ lease = Free => {k \in Keys : values[k] # None} \subseteq KeysOf(bucket)

\* While nothing fails, every descriptor that is left in the index when no
\* change is under way serves its value: results that are registered in another
\* order than their requests came, or pushed out by newer ones, leave none behind.
NoDangling == ~disturbed /\ lease = Free => \A d \in bucket : Matches(d)

\* Every request is answered although others hold the lease or died with it.
EveryRequestIsAnswered ==
  \A c \in Clients : ~At(c, "idle") ~> At(c, "idle")
============================================================================
