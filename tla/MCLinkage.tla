----------------------------- MODULE MCLinkage -----------------------------
(* Linkage on four attributes.  The shapes are chosen so that every score   *)
(* band, every homonym signal and every conflict class occurs.              *)
EXTENDS Linkage

Word(n) == CASE n = 1 -> <<"loss", "date">> [] n = 2 -> <<"loss", "dt">>
Shape(name, type, region, level, enum, path, tier) ==
    [name |-> name, type |-> type, region |-> region, artefact |-> region,
     level |-> level, enum |-> enum, constraints |-> {}, path |-> path,
     tier |-> tier, evidence |-> {region}]

MCShapes == {
    Shape(Word(1), "date",     "us", "mandatory",   {}, <<"claim">>, 1),
    Shape(Word(1), "date",     "uk", "optional",    {}, <<"claim">>, 2),
    Shape(Word(1), "dateTime", "eu", "mandatory",   {}, <<"claim">>, 3),
    Shape(Word(1), "string",   "uk", "conditional", {"A"}, <<"claim">>, 1),
    Shape(Word(1), "string",   "eu", "optional",    {"A", "B"}, <<"claim">>, 3),
    Shape(Word(1), "string",   "us", "optional",    {"B"}, <<"claim">>, 2),
    Shape(Word(2), "object",   "us", "optional",    {}, <<"claim", "loss">>, 1)}

MCOrders == {<<1, 2, 3, 4>>, <<4, 2, 1, 3>>}
MCLemma  == [w \in {"dates"} |-> "date"]
MCPrefix == [w \in {"date"} |-> "dat"]
=============================================================================
