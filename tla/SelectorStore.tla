----------------------------- MODULE SelectorStore -----------------------------
(***************************************************************************)
(* The two selector stores side by side on one key: the memory store       *)
(* (memorySelectorStore.ts) and the Redis client's commands and scripts    *)
(* (redisClient.ts).  Every call is given to both; `memory` and `redis`    *)
(* are what each holds, `agreed` whether they said the same.  Time is in    *)
(* seconds.                                                                *)
(*                                                                         *)
(* A stored value is a text.  Only its shape matters here: a JSON object   *)
(* with certain fields, some other JSON, or no JSON at all.                *)
(***************************************************************************)
EXTENDS Integers, FiniteSets

CONSTANTS
    Fields,          \* names of fields
    Values,          \* the texts clients write
    Patches,         \* the patches clients merge
    Expectations,    \* what clients expect of a field
    Versions,        \* the versions clients expect
    Ttls,            \* the times to live clients ask for
    MaxCount,        \* bound on the counters a merge starts from
    MaxTime          \* bound on the clock

\* Primitives as <<type, value>>; a field that is not there; an object or array.
Missing   == <<"missing", 0>>
Nested    == <<"nested", 0>>
Num(n) == <<"number", n>>
Text(n)   == <<"string", n>>      \* n = 0 is a text tonumber() cannot read
Object(fields) == [shape |-> "object", fields |-> fields]
NoFields  == [f \in Fields |-> Missing]
Absent    == [shape |-> "absent", fields |-> NoFields]
MaxTtl    == 2592000
Forever   == -1

\* A text JSON.parse turns into something that is not an object, no JSON at all,
\* and "".
Array     == [shape |-> "array", fields |-> NoFields]
Malformed == [shape |-> "malformed", fields |-> NoFields]
Empty     == [shape |-> "empty", fields |-> NoFields]

Primitive == {Missing, Nested} \cup ({"number"} \X Int) \cup ({"string"} \X Nat)
JsonValue == [shape : {"object"}, fields : [Fields -> Primitive]] \cup {Array, Malformed, Empty}
JsonPatch(patch) == /\ {patch.defaultValue, patch.set} \subseteq [Fields -> Primitive]
                    /\ DOMAIN patch.increments \subseteq Fields
                    /\ patch.increments \in [DOMAIN patch.increments -> Int]

ASSUME StoreAssumption ==
    /\ "version" \in Fields
    /\ Values \subseteq JsonValue /\ \A patch \in Patches : JsonPatch(patch)
    /\ Versions \subseteq Int /\ Ttls \subseteq Int

VARIABLES
    memory, redis,   \* what each store holds for the key, and until when
    closed,          \* the memory store was closed
    clock,
    \* observation only
    agreed,          \* the answers to the last call were the same
    plain            \* only plain values were ever held

storeVars == <<memory, redis, closed, clock, agreed, plain>>

Nothing == [value |-> Absent, expiresAt |-> Forever]
Answer(said, value) == [said |-> said, value |-> value]
Error == [said |-> "error", value |-> Absent]

StoreInit ==
    /\ memory = Nothing
    /\ redis = Nothing
    /\ closed = FALSE
    /\ clock = 0
    /\ agreed = TRUE
    /\ plain = TRUE

-----------------------------------------------------------------------------

Valid(ttl) == ttl = Forever \/ ttl \in 1 .. MaxTtl
Expiry(ttl) == IF ttl = Forever THEN Forever ELSE clock + ttl

\* readLiveEntry; Redis drops the key of itself.
ReadLive(entry) ==
    IF entry.expiresAt # Forever /\ entry.expiresAt <= clock THEN Absent ELSE entry.value
Live(entry) ==
    IF entry.expiresAt # Forever /\ clock >= entry.expiresAt THEN Absent ELSE entry.value

\* What the memory store takes for a record.
Flat(value) == value.shape = "object" /\ \A f \in Fields : value.fields[f] # Nested

\* A value both stores mean the same by: a flat object whose version and counters
\* are numbers if they are there.
Plain(value) ==
    /\ Flat(value)
    /\ \A f \in Fields : value.fields[f][1] # "string" \/ value.fields[f] = Text(0)

\* The same answer.  The stores check arguments in different orders: a call that
\* could not have written may be refused by one and be an error of the other.
Agree(a, b) == a = b \/ {a.said, b.said} = {"refused", "error"}

\* Both stores act; an outcome is <<what is held afterwards, the answer>>.  A
\* history ends with the first text that is not plain.
Both(inMemory, inRedis) ==
    /\ ~closed /\ plain
    /\ memory' = inMemory[1]
    /\ redis' = inRedis[1]
    /\ agreed' = Agree(inMemory[2], inRedis[2])
    /\ plain' = (plain /\ (inMemory[1].value = Absent \/ Plain(inMemory[1].value)))
    /\ UNCHANGED <<closed, clock>>

Entry(value, ttl) == [value |-> value, expiresAt |-> Expiry(ttl)]

\* get, and getMany of the key.
Get == Both(<<memory, Answer("value", ReadLive(memory))>>,
            <<redis, Answer("value", Live(redis))>>)

\* set.  The memory store writes nothing if the time to live is refused.
Set(value, ttl) ==
    IF Valid(ttl)
    THEN Both(<<Entry(value, ttl), Answer("ok", Absent)>>,
              <<Entry(value, ttl), Answer("ok", Absent)>>)
    ELSE Both(<<memory, Error>>, <<redis, Error>>)

\* readStoredVersion: a number, or null.
StoredVersion(value) ==
    IF value.shape = "object" /\ value.fields["version"][1] = "number"
    THEN value.fields["version"][2] ELSE Forever

\* compareAndSet of the memory store; `expected` is Forever to expect nothing.
MemoryCas(expected, value, ttl) ==
    LET existing == ReadLive(memory)
        matches  == IF expected = Forever THEN existing = Absent
                    ELSE existing # Absent /\ StoredVersion(existing) = expected
    IN
    IF expected # Forever /\ expected < 0 THEN <<memory, Error>>
    ELSE IF ~matches THEN <<memory, Answer("refused", existing)>>
    ELSE IF ~Valid(ttl) THEN <<memory, Error>>
    ELSE <<Entry(value, ttl), Answer("written", existing)>>

\* What tonumber makes of a field, nil as Forever.
ToNumber(primitive) ==
    IF primitive[1] = "number" \/ (primitive[1] = "string" /\ primitive # Text(0))
    THEN primitive[2] ELSE Forever

\* A reply of "" and no value are one to the client.
Replied(value) == IF value = Empty THEN Absent ELSE value

\* compareAndSetJsonVersion and its script.
RedisCas(expected, value, ttl) ==
    LET current == Live(redis)
        decoded == current.shape \in {"object", "array"}
        matches == IF expected = Forever THEN current = Absent
                   ELSE decoded /\ ToNumber(current.fields["version"]) = expected
    IN
    IF (expected # Forever /\ expected < 1) \/ ~Valid(ttl) THEN <<redis, Error>>
    ELSE IF ~matches THEN <<redis, Answer("refused", Replied(current))>>
    ELSE <<Entry(value, ttl), Answer("written", Replied(current))>>

CompareAndSet(expected, value, ttl) ==
    Both(MemoryCas(expected, value, ttl), RedisCas(expected, value, ttl))

\* compareAndSetJsonField of the memory store, which parses the whole record.
MemoryCasField(field, expected, value, ttl) ==
    LET existing == ReadLive(memory) IN
    IF existing = Absent THEN <<memory, Answer("refused", Absent)>>
    ELSE IF ~Flat(existing) THEN <<memory, Error>>
    ELSE IF existing.fields[field] # expected THEN <<memory, Answer("refused", existing)>>
    ELSE IF ~Valid(ttl) THEN <<memory, Error>>
    ELSE <<Entry(value, ttl), Answer("written", existing)>>

\* compareAndSetJsonField of the Redis client and its script.
RedisCasField(field, expected, value, ttl) ==
    LET current == Live(redis)
        matches == /\ current.shape \in {"object", "array"}
                   /\ current.fields[field] = expected
    IN
    IF ~Valid(ttl) THEN <<redis, Error>>
    ELSE IF ~matches THEN <<redis, Answer("refused", Replied(current))>>
    ELSE <<Entry(value, ttl), Answer("written", Replied(current))>>

CompareAndSetJsonField(field, expected, value, ttl) ==
    Both(MemoryCasField(field, expected, value, ttl),
                    RedisCasField(field, expected, value, ttl))

\* A patch: defaults for fields that are missing, then increments, then sets.
Defaulted(fields, patch) ==
    [f \in Fields |-> IF fields[f] = Missing THEN patch.defaultValue[f] ELSE fields[f]]
Merged(base, patch, counter) ==
    Object([f \in Fields |->
        IF patch.set[f] # Missing THEN patch.set[f]
        ELSE IF f \in DOMAIN patch.increments THEN Num(counter[f] + patch.increments[f])
        ELSE base[f]])

\* atomicJsonMerge of the memory store: a counter must be a number.
MemoryCounter(primitive) == IF primitive = Missing THEN 0 ELSE primitive[2]
MemoryMerge(patch, ttl) ==
    LET current == ReadLive(memory)
        fields  == IF current = Absent THEN patch.defaultValue ELSE current.fields
        base    == Defaulted(fields, patch)
        merged  == Merged(base, patch, [f \in Fields |-> MemoryCounter(base[f])])
        refuses == \/ current # Absent /\ ~Flat(current)
                   \/ \E f \in DOMAIN patch.increments : base[f][1] \notin {"number", "missing"}
                   \/ ~Valid(ttl)
    IN IF refuses THEN <<memory, Error>> ELSE <<Entry(merged, ttl), Answer("merged", merged)>>

RedisCounter(primitive) == IF primitive = Missing THEN 0 ELSE ToNumber(primitive)
Countable(primitive) == \/ primitive[1] \in {"number", "missing"}
                        \/ primitive[1] = "string" /\ primitive # Text(0)

\* Mutant of RedisMerge: a record that exists gets no defaults.
RedisMerge_Bug(patch, ttl) ==
    LET current == Live(redis)
        fields  == IF current = Absent THEN patch.defaultValue ELSE current.fields
        merged  == Merged(fields, patch, [f \in Fields |-> RedisCounter(fields[f])])
        refuses == ~Valid(ttl) \/ (current # Absent /\ ~Flat(current))
    IN IF refuses THEN <<redis, Error>> ELSE <<Entry(merged, ttl), Answer("merged", merged)>>

\* atomicJsonMerge of the Redis client and its script: a counter must be something
\* tonumber can read; an array is merged into as a table.
RedisMerge(patch, ttl) ==
    LET current == Live(redis)
        fields  == IF current = Absent THEN patch.defaultValue ELSE current.fields
        base    == Defaulted(fields, patch)
        merged  == Merged(base, patch, [f \in Fields |-> RedisCounter(base[f])])
        refuses == \/ ~Valid(ttl)
                   \/ current.shape \in {"malformed", "empty"}
                   \/ \E f \in DOMAIN patch.increments : ~Countable(base[f])
    IN IF refuses THEN <<redis, Error>> ELSE <<Entry(merged, ttl), Answer("merged", merged)>>

AtomicJsonMerge(patch, ttl) ==
    /\ \A f \in Fields : ToNumber(redis.value.fields[f]) <= MaxCount
    /\ Both(MemoryMerge(patch, ttl), RedisMerge(patch, ttl))

\* del, and keys of a pattern that matches the key.
Del ==
    Both(<<Nothing, Answer(IF ReadLive(memory) = Absent THEN "0" ELSE "1", Absent)>>,
                    <<Nothing, Answer(IF Live(redis) = Absent THEN "0" ELSE "1", Absent)>>)
ListKeys ==
    Both(<<memory, Answer(IF ReadLive(memory) = Absent THEN "none" ELSE "listed", Absent)>>,
                    <<redis, Answer(IF Live(redis) = Absent THEN "none" ELSE "listed", Absent)>>)

\* close of the memory store: it forgets everything, and refuses every later call.
Close ==
    /\ closed' = TRUE
    /\ memory' = Nothing
    /\ UNCHANGED <<redis, clock, agreed, plain>>

Tick ==
    /\ clock < MaxTime
    /\ clock' = clock + 1
    /\ UNCHANGED <<memory, redis, closed, agreed, plain>>

StoreNext ==
    \/ Get \/ Del \/ ListKeys \/ Close \/ Tick
    \/ \E value \in Values, ttl \in Ttls :
          \/ Set(value, ttl)
          \/ \E version \in Versions : CompareAndSet(version, value, ttl)
          \/ \E field \in Fields, expected \in Expectations :
                CompareAndSetJsonField(field, expected, value, ttl)
    \/ \E patch \in Patches, ttl \in Ttls : AtomicJsonMerge(patch, ttl)

-----------------------------------------------------------------------------

(***************************************************************************)
(* "implements the same SelectorStore capabilities as the Redis adapter    *)
(* for common registry paths": a sequence of calls that leaves plain       *)
(* records leaves the same record, due to expire at the same time, and the *)
(* same answer in either store, whatever expired, was refused or deleted   *)
(* in between.                                                             *)
(***************************************************************************)
StoresAgree ==
    plain /\ ~closed =>
        /\ agreed
        /\ ReadLive(memory) = Live(redis)
        /\ ReadLive(memory) # Absent => memory = redis
=============================================================================
