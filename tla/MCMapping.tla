----------------------------- MODULE MCMapping -----------------------------
(* Two attributes of one region and specifications put together from a menu *)
(* of entries: every transform once, each disposition and failure policy,   *)
(* shared paths, a stale path, no path, an omitted attribute, unknown       *)
(* names.                                                                   *)
EXTENDS MappingRun
LOCAL INSTANCE SequencesExt

Arg1(k, v)  == <<[key |-> k, value |-> [literal |-> v]]>>
Call(n, as) == [name |-> n, args |-> as]
Entry(region, canonical, line) ==
    [region |-> region, canonical |-> canonical, transform |-> line, disposition |-> "",
     weight |-> 5, onFailure |-> "", note |-> "", evidence |-> {"e"}]
Noted(e) == [e EXCEPT !.note = "noted"]
Record(p, t, enum) == [path |-> p, type |-> t, enum |-> enum]

AB == <<<<"a">>, <<"b">>>>
MCIrs == {{Record("r", "string", AB), Record("s", "string", AB)},
          {Record("r", "string", <<<<"a">>, <<"B">>, <<"c">>>>), Record("s", "date", <<>>)},
          {Record("r", "dateTime", <<>>), Record("s", "integer", <<>>)},
          {Record("r", "string", <<>>), Record("s", "string", <<<<"a">>, <<"1">>>>)}}

Parse(f) == Call("parseDate", Arg1("fmt", f))
Money == Call("toMonetaryAmount",
              <<[key |-> "currency", value |-> [constant |-> "GBP"]]>>)
Identify == Call("toIdentifier", Arg1("scheme", "S") \o Arg1("issuer", "I"))
Map  == Call("valueMap", Arg1("map", "m"))
Id   == Call("identity", <<>>)
Const == Call("constant", Arg1("", Str(<<"k">>)))
Lower == Call("normaliseCase", Arg1("mode", "lower"))
Lines == {<<Id>>, <<Map>>, <<Identify>>, <<Money>>, <<Parse("day")>>, <<Parse("time"), Call("formatDate", Arg1("fmt", "time"))>>,
          <<Parse("day"), Call("instantAtStartOfDay", Arg1("zone", "Z"))>>,
          <<Call("scale", Arg1("factor", 100)), Money>>, <<Call("scale", Arg1("factor", 0))>>, <<Const>>, <<Lower>>,
          <<Call("decompose", Arg1("pattern", "P") \o Arg1("template", "T")),
            Call("compose", Arg1("template", "T") \o Arg1("pattern", "P"))>>,
          <<Map, Identify, Id, Id>>, <<Call("parseDate", <<>>)>>, <<Call("unheard", <<>>)>>,
          <<Money, Call("compose", Arg1("template", "M"))>>,
          <<Call("coalesce", <<>>)>>, <<Call("concat", Arg1("separator", "-"))>>}
\* What r may become, in every form, and what s may.
ForR == {Entry("r", "c", line) : line \in Lines}
        \union {Noted(Entry("r", "c", line)) : line \in {<<Lower>>, <<Parse("day")>>, <<Parse("time")>>}}
        \union {[Entry("r", "c", line) EXCEPT !.weight = w, !.onFailure = o] :
                  line \in {<<Map>>, <<Money>>}, w \in {1, 5}, o \in {"skip", "default", "reject"}}
        \union {[Noted(Entry("r", "c", <<Parse("time")>>)) EXCEPT !.weight = 1, !.onFailure = "default"],
                [Entry("r", "", <<>>) EXCEPT !.disposition = "unmapped"],
                [Entry("r", "c", <<Id>>) EXCEPT !.disposition = "escalated"],
                [Entry("r", "c", <<Id>>) EXCEPT !.evidence = {}],
                Entry("r", "", <<Map>>), Noted(Entry("r", "", <<Lower>>))}
ForS == {Entry("s", "d", <<Id>>), Entry("s", "c", <<Id>>), Entry("s", "c", <<Map>>),
         [Entry("s", "c", <<Money>>) EXCEPT !.weight = 1, !.onFailure = "default"],
         Noted(Entry("s", "d", <<Parse("day"), Call("instantAtStartOfDay", Arg1("zone", "Z"))>>)),
         Entry("s", "d", <<Money>>),
         Noted(Entry("s", "c", <<Parse("day"), Call("instantAtStartOfDay", Arg1("zone", "Y"))>>)),
         [Entry("s", "", <<>>) EXCEPT !.disposition = "unmapped"],
         Entry("stale", "d", <<Id>>)}

MapOf(pairs, policy) == [m |-> [pairs |-> pairs, unmapped |-> policy]]
MCMaps == {MapOf(<<<< <<"a">>, <<"x">> >>, << <<"b">>, <<"y">> >> >>, ""),
           MapOf(<<<< <<"a">>, <<"b">> >>, << <<"b">>, <<"b">> >> >>, ""),
           MapOf(<<<< <<"a">>, <<"b">> >> >>, "passthrough"),
           MapOf(<<<< <<"x">>, <<"a">> >>, << <<"y">>, <<"b">> >> >>, ""),
           MapOf(<<<< <<"a">>, <<"a">> >> >>, ""),
           MapOf(<<<< <<"a">>, <<"c">> >> >>, "passthrough"),
           MapOf(<<<< <<"a">>, <<"x">> >>, << <<"B">>, <<"y">> >> >>, "escalate"),
           MapOf(<<<< <<"a">>, <<"x">> >> >>, "escalate")}
MCSpecs == {[direction |-> d, mappings |-> <<r, s>>, valueMaps |-> m] :
              d \in {"bidirectional", "toCanonical"}, r \in ForR, s \in ForS, m \in MCMaps}
MCCanonicalTypes == {[c |-> "MonetaryAmount", d |-> "dateTime"], [c |-> "string"], [d |-> "decimal"]}

MCDays == 0..2
MCSeeds == 0..2
MCCaseMode == [lower |-> [w \in {"B"} |-> "b"], upper |-> [w \in {"a", "b"} |-> IF w = "a" THEN "A" ELSE "B"]]
MCNumerals == [t \in {<<"1">>, <<"1.0">>} |-> 1]
MCOffset   == [Z |-> 0, Y |-> -1]
\* The pattern matches the texts "a" and "b" and those of the suite, no others.
MCTexts     == {"a", "b", "r0", "r1"}
MCPatterns  == [P |-> [t \in {<<w>> : w \in MCTexts} |-> [first |-> Head(t)]]]
MCTemplates == [T |-> [p \in {[first |-> w] : w \in MCTexts} |-> <<p.first>>],
                M |-> [p \in {[amount |-> 1, currency |-> "GBP"]} |-> <<"1.0">>]]
=============================================================================
