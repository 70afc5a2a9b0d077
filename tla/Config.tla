--------------------------------- MODULE Config ----------------------------------
(***************************************************************************)
(* config.py: the fields of a game, what GameConfig.from_dict refuses, and *)
(* the public form of a configuration that the replay carries (to_dict).   *)
(*                                                                         *)
(* A raw value is a tuple that starts with its type.  A list is a sequence *)
(* of items of which only "good" ones pass.                                *)
(***************************************************************************)
EXTENDS Integers, Sequences

Private == {"tokens", "native_profiles"}
Lists == {"players"} \cup Private
Integral == {"holes", "seed", "max_tests_per_hole", "par_tests_per_hole"}
Positive == {"hole_deadline_seconds", "retry_deadline_seconds", "call_cpu_seconds",
             "sandbox_batch_seconds", "wall_clock_budget_seconds"}
NonNegative == {"hole_reserve_seconds", "min_hole_spacing_seconds",
                "player_connect_timeout_seconds"}
Fields == Lists \cup {"deck"} \cup Integral \cup Positive \cup NonNegative
KnownKeys == Fields \cup {"num_agents"}

Seats == 2
Both == <<"list", <<"good", "good">>>>

Default ==
    [native_profiles |-> Both, deck |-> <<"text">>, num_agents |-> <<"int", Seats>>,
     holes |-> <<"int", 9>>, seed |-> <<"int", 0>>,
     max_tests_per_hole |-> <<"int", 5>>, par_tests_per_hole |-> <<"int", 4>>,
     hole_deadline_seconds |-> <<"float", 40>>, retry_deadline_seconds |-> <<"float", 15>>,
     call_cpu_seconds |-> <<"float", 1>>, sandbox_batch_seconds |-> <<"float", 6>>,
     hole_reserve_seconds |-> <<"float", 80>>, min_hole_spacing_seconds |-> <<"float", 4>>,
     player_connect_timeout_seconds |-> <<"float", 90>>,
     wall_clock_budget_seconds |-> <<"float", 700>>]

Range(key) ==
    CASE key = "holes" -> 1..12
      [] key = "max_tests_per_hole" -> 1..5
      [] key = "par_tests_per_hole" -> {4}
      [] key = "seed" -> Nat

\* Every check of from_dict; data.get(key, default).
Get(data, key) == IF key \in DOMAIN data THEN data[key] ELSE Default[key]

IntField(value) == value[1] = "int"

\* A finite number, and no bool.
NumberField(value, positive) ==
    value[1] \in {"int", "float"} /\ (IF positive THEN value[2] > 0 ELSE value[2] >= 0)

Known(data) == DOMAIN data \subseteq KnownKeys

Accepted(data) ==
    /\ Known(data)
    /\ {"players", "tokens"} \subseteq DOMAIN data
    /\ \A key \in Lists : Get(data, key) = Both
    /\ IntField(Get(data, "num_agents")) /\ Get(data, "num_agents")[2] = Seats
    /\ Get(data, "deck")[1] = "text"
    /\ \A key \in Integral : IntField(Get(data, key)) /\ Get(data, key)[2] \in Range(key)
    /\ \A key \in Positive : NumberField(Get(data, key), TRUE)
    /\ \A key \in NonNegative : NumberField(Get(data, key), FALSE)

\* float(value) of the numbers; the rest as it is.
FromDict(data) ==
    [key \in Fields |->
        IF key \in Positive \cup NonNegative THEN <<"float", Get(data, key)[2]>>
        ELSE Get(data, key)]

\* Mutant: a field that was added to the class and not to its public form.
ToDictShort(config) ==
    [key \in KnownKeys \ (Private \cup {"retry_deadline_seconds"}) |->
        IF key = "num_agents" THEN <<"int", Len(config["players"][2])>> ELSE config[key]]

ToDict(config) ==
    [key \in KnownKeys \ Private |->
        IF key = "num_agents" THEN <<"int", Len(config["players"][2])>> ELSE config[key]]
================================================================================
