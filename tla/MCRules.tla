--------------------------------- MODULE MCRules ---------------------------------
EXTENDS Fingerprints, TLC

\* Integers around Exact, floats of the same values, and what is no value.
Small == {<<"null">>, <<"bool", TRUE>>, <<"int", 2>>, <<"float", 2>>, <<"str", 1>>}
Atoms == Small \cup {<<"bool", FALSE>>, <<"int", 0>>, <<"float", 1>>, <<"str", 2>>,
                     <<"str", 3>>, <<"int", 8>>, <<"int", 10>>, <<"int", 12>>, <<"float", 8>>,
                     <<"int", 14>>, <<"int", 40>>, <<"nan">>, <<"set">>}
ListsOf(S) == {<<"list", items>> : items \in {<<>>} \cup {<<x>> : x \in S} \cup (S \X S)}
DictsOf(S) ==
    {<<"dict", <<>>>>, <<"dict", << <<NoString, <<"null">>>> >>>>}
    \cup {<<"dict", << <<k, x>> >>>> : k \in {1, 2}, x \in S}
    \cup {<<"dict", << <<k, x>>, <<3 - k, y>> >>>> : k \in {1, 2}, x, y \in S}
Flat == ListsOf(Small) \cup DictsOf({<<"int", 2>>, <<"bool", TRUE>>})
        \cup {<<"list", <<x>>>> : x \in Atoms} \cup {<<"list", << <<"str", 2>>, <<"str", 1>> >>>>}
        \cup {<<"tuple", <<x>>>> : x \in Small}
Two == {<<"list", <<x>>>> : x \in Flat} \cup {<<"dict", << <<1, <<"list", <<x>>>>>> >>>> : x \in Small}
Three == {<<"list", << <<"list", << <<"tuple", <<x>>>> >>>> >>>> : x \in Small}
MCValues == Atoms \cup Flat \cup Two \cup Three \cup {<<"list", <<x>>>> : x \in Three}

\* "a", "b" and "b,s:a", which is also how the list of the first two renders.
Char(t) == <<t, 0>>
MCSpelling == << <<Char("a")>>, <<Char("b")>>, <<Char("b"), Char(","), Char("s:"), Char("a")>> >>

Units == {<<"other">>, <<"open">>, <<"close">>, <<"backslash", "quote">>,
          <<"backslash", "backslash">>}
Strings == {<<"quote">> \o s \o <<"quote">> :
               s \in {<<>>} \cup Units \cup {u \o v : u, v \in Units}}
Object(members) == <<"open">> \o FlattenSeq(members) \o <<"close">>
Flats == {Object(<<m>>) : m \in Strings \cup {<<>>, <<"other">>}}
MCTexts ==
    {<<>>, <<"quote", "close">>, <<"other", "backslash">>}
    \X (Flats \cup {Object(<<s, f>>) : s \in Strings, f \in Flats})
    \X {<<>>, <<"close", "other">>, <<"quote", "open">>}

Entries == UNION {[1..n -> Forms] : n \in 0..4}
Payloads ==
    [impl : {"source", "wide"}, tests : {TestsOf("list", e) : e \in Entries}, note : {"text"}]
    \cup [impl : Impls, tests : {NoTests, TestsOf("other", <<>>), TestsOf("number", <<>>),
                                 TestsOf("list", <<"small">>)},
          note : {"absent", "text", "other"}]
Nothing == [impl |-> "missing", tests |-> NoTests, note |-> "absent"]
Plain(payload) == [whole |-> payload, span |-> Nothing, python |-> "missing", json |-> Nothing]
MCReplies ==
    {Plain(p) : p \in Payloads}
    \cup [whole : {Nothing},
          span : {Nothing, [Nothing EXCEPT !.impl = "source"], [Nothing EXCEPT !.impl = "blank"]},
          python : {"missing", "source", "blank", "long"},
          json : [impl : {"missing"}, note : {"absent", "text", "other"},
                  tests : {NoTests, TestsOf("other", <<>>), TestsOf("number", <<>>),
                           TestsOf("list", <<"junk", "large", "small">>)}]]

OutcomeLists == {<<>>, <<"breach">>, <<"held">>, <<"breach", "breach">>, <<"held", "breach">>}
Judged == [outcomes : [Slots -> OutcomeLists], parFails : {[s \in Slots |-> 0]} \cup
              {[s \in Slots |-> IF s = t THEN 1 ELSE 0] : t \in Slots}]
Short == {h \in Judged : h.parFails = [s \in Slots |-> 0] /\ Len(h.outcomes[1]) < 2}
MCMatches == UNION {[1..n -> Judged] : n \in 0..2} \cup [1..3 -> Short]

Sizes == UNION {[1..n -> 1..2] : n \in 0..3}
Entry == [rest : {1, 7}, yours : Sizes, theirs : Sizes]
Last3 == {e \in Entry : e.rest = 1 /\ \A i \in DOMAIN e.theirs : e.theirs[i] = 2}
MCEntries == {<<e>> : e \in Entry}
             \cup {<<[e EXCEPT !.rest = 2], e, f>> : e \in Last3, f \in {g \in Last3 : g.yours = <<1>>}}

Base == [players |-> Conf!Both, tokens |-> Conf!Both]
Raw == {<<"int", 0>>, <<"int", 1>>, <<"int", 4>>, <<"int", 13>>, <<"float", 4>>, <<"bool">>,
        <<"nan">>, <<"text">>, <<"empty">>}
Lists == {Conf!Both, <<"list", <<"good">>>>, <<"list", <<"good", "bad">>>>, <<"text">>}
Changes == {key :> v : key \in (Conf!KnownKeys \ Conf!Lists) \cup {"hole"}, v \in Raw \cup {<<"int", 2>>}}
           \cup {key :> v : key \in Conf!Lists, v \in Lists}
Numbers == {c \in Changes : \A k \in DOMAIN c :
               k \in Conf!Positive \cup Conf!NonNegative \cup {"holes"} /\ c[k][1] = "int"}
MCConfigs == {c @@ Base : c \in Changes} \cup {c @@ d @@ Base : c, d \in Numbers}
             \cup {Base, [players |-> Conf!Both], [tokens |-> Conf!Both]}
================================================================================
