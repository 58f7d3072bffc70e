------------------------------- MODULE Intake -------------------------------
(***************************************************************************)
(* The intake of a run, from the sources to the attribute records:         *)
(* discover, filter by relevance, ask the Repository Scout about the rest, *)
(* fetch and gate what is kept, seal the manifest, parse every artefact,   *)
(* write the records.  The git repository and the wiki move on meanwhile.  *)
(* What the parsers make of a document is a parameter: Parsing has it.     *)
(*                                                                         *)
(* The sources are one git connector, which pins a commit when it          *)
(* discovers, and one Confluence connector, which reads a page again when  *)
(* it fetches it.  The ledger's hash chain and its ids are EgressLedger's; *)
(* here an entry is only the verdict.  Several assemblies follow each      *)
(* other, each in a process of its own.                                    *)
(***************************************************************************)
EXTENDS Gate, Selection
LOCAL INSTANCE SequencesExt

CONSTANTS
    Paths,        \* the git paths, in listing order
    Pages,        \* the wiki pages, in listing order
    Histories,    \* the histories of the repository: sequences of trees
    Editions,     \* the histories of the wiki: sequences of page contents
    OnTopic,      \* the uris that hold a domain token
    Licence,      \* [{"git", "confluence"} -> Dispositions]
    Classifiers,  \* the scout_classifier arguments: default, or the Scout's
    Readable(_),  \* router.parse has a parser that accepts the document
    Records(_),   \* and what it returns
    MaxAssemblies \* bound on assemblies

(* A document of a repository or a wiki; its trees are what the parsers    *)
(* look at, contract is what it publishes.                                 *)
Document(doc) ==
    doc \in [media : Media, broken : BOOLEAN, has : SUBSET {"comment", "encoding"},
             texts : [Places -> SUBSET SUBSET Spellings],
             trees : {doc.trees}, contract : {doc.contract}]

ASSUME IntakeAssumption ==
    /\ Paths \in Seq(ToSet(Paths)) /\ Pages \in Seq(ToSet(Pages))
    /\ \A history \in Histories \union Editions :
          /\ history \in Seq(ToSet(history)) /\ history # <<>>
          /\ \A tree \in ToSet(history) : \A uri \in DOMAIN tree : Document(tree[uri])
    /\ \A history \in Editions : \A tree \in ToSet(history) : DOMAIN tree = ToSet(Pages)
    /\ Licence \in [{"git", "confluence"} -> Dispositions]
    /\ Classifiers \subseteq {"default", "scout"}
    /\ MaxAssemblies \in Nat

VARIABLES
    repo,        \* the history of the repository
    wiki,        \* the history of the wiki
    classifier,  \* who decides on the uncertain refs
    head,        \* the commit HEAD is at
    edition,     \* the version the pages are at
    pc,          \* the stage the assembly is in
    sha,         \* the commit discover resolved
    refs,        \* what discover listed
    keep,        \* refs kept and not gated yet, in order
    uncertain,   \* refs pass 1 did not decide
    exclusions,  \* the manifest's exclusions
    artefacts,   \* the manifest's artefacts, in order
    parsed,      \* one list of records per artefact parsed
    stored,      \* the records of the run, once they are written
    seals,       \* the inputs and contents of every sealed manifest
    assemblies

work == <<sha, refs, keep, uncertain, exclusions, artefacts, parsed, stored>>
given == <<repo, wiki, classifier>>
vars == <<given, head, edition, pc, work, seals, assemblies>>

-----------------------------------------------------------------------------
Init ==
    /\ repo \in Histories
    /\ wiki \in Editions
    /\ classifier \in Classifiers
    /\ head = 1 /\ edition = 1
    /\ pc = "resolve"
    /\ sha = 0
    /\ refs = <<>> /\ keep = <<>> /\ uncertain = <<>>
    /\ exclusions = {}
    /\ artefacts = <<>> /\ parsed = <<>> /\ stored = {}
    /\ seals = {}
    /\ assemblies = 1

(* The sources move on.                                                    *)
Commit ==
    /\ head < Len(repo)
    /\ head' = head + 1
    /\ UNCHANGED <<given, edition, pc, work, seals, assemblies>>

EditPages ==
    /\ edition < Len(wiki)
    /\ edition' = edition + 1
    /\ UNCHANGED <<given, head, pc, work, seals, assemblies>>

(* GitConnector.discover asks twice: rev-parse HEAD, then ls-tree HEAD.    *)
ResolveHead ==
    /\ pc = "resolve"
    /\ sha' = head
    /\ pc' = "list"
    /\ UNCHANGED <<given, head, edition, refs, keep, uncertain, exclusions,
                   artefacts, parsed, stored, seals, assemblies>>

GitRef(p)  == [uri |-> p, system |-> "git", media |-> repo[head][p].media]
PageRef(p) == [uri |-> p, system |-> "confluence", media |-> "text"]

ListSources ==
    /\ pc = "list"
    /\ LET tracked == Where(Paths, LAMBDA p : p \in DOMAIN repo[head])
       IN refs' = [i \in DOMAIN tracked |-> GitRef(tracked[i])]
                  \o [i \in DOMAIN Pages |-> PageRef(Pages[i])]
    /\ pc' = "filter"
    /\ UNCHANGED <<given, head, edition, sha, keep, uncertain, exclusions,
                   artefacts, parsed, stored, seals, assemblies>>

-----------------------------------------------------------------------------
(* Pass 1 of filter_relevance, in hundredths.  The catalogue and gateway   *)
(* signals are 0 for both connectors.                                      *)
Pass1Keep == 65
Pass1Drop == 20
Score(ref) == (IF ref.uri \in OnTopic THEN 60 ELSE 0)
              + (IF ref.media \in {"json", "xml", "avro"} THEN 10 ELSE 3)

Exclusion(ref, reason, by) == [uri |-> ref.uri, reason |-> reason, by |-> by]

Filter ==
    /\ pc = "filter"
    /\ keep' = Where(refs, LAMBDA r : Score(r) >= Pass1Keep)
    /\ uncertain' = Where(refs, LAMBDA r : Score(r) \in Pass1Drop + 1 .. Pass1Keep - 1)
    /\ exclusions' = {Exclusion(r, "out-of-domain", "pass1") :
                        r \in {s \in ToSet(refs) : Score(s) <= Pass1Drop}}
    /\ pc' = "scout"
    /\ UNCHANGED <<given, head, edition, sha, refs, artefacts, parsed,
                   stored, seals, assemblies>>

(* default_uncertain_policy keeps everything.                              *)
KeepUncertain ==
    /\ pc = "scout" /\ (classifier = "default" \/ uncertain = <<>>)
    /\ keep' = keep \o uncertain
    /\ uncertain' = <<>>
    /\ pc' = "gate"
    /\ UNCHANGED <<given, head, edition, sha, refs, exclusions, artefacts,
                   parsed, stored, seals, assemblies>>

(* The Repository Scout's classifier, which filter_relevance takes in its  *)
(* place (assemble_corpus_manifest passes none): an answer that gives      *)
(* every uncertain uri one verdict passes V2; verdicts on other uris are   *)
(* not looked at.                                                          *)
Verdicts == [uri : ToSet(Paths) \union ToSet(Pages), in_domain : BOOLEAN]

V2Valid(answer) ==
    /\ {r.uri : r \in ToSet(uncertain)} \subseteq {v.uri : v \in answer}
    /\ \A v, w \in answer : v.uri = w.uri => v = w

Scout ==
    /\ pc = "scout" /\ classifier = "scout" /\ uncertain # <<>>
    /\ \E answer \in SUBSET Verdicts :
          /\ V2Valid(answer)
          /\ LET kept(r) == [uri |-> r.uri, in_domain |-> TRUE] \in answer
             IN /\ keep' = keep \o Where(uncertain, kept)
                /\ exclusions' = exclusions \union
                      {Exclusion(r, "out-of-domain", "repository-scout") :
                         r \in {s \in ToSet(uncertain) : ~kept(s)}}
    /\ uncertain' = <<>>
    /\ pc' = "gate"
    /\ UNCHANGED <<given, head, edition, sha, refs, artefacts, parsed,
                   stored, seals, assemblies>>

(* No answer passes in the attempts it has: the work item fails.           *)
ScoutFails ==
    /\ pc = "scout" /\ classifier = "scout" /\ uncertain # <<>>
    /\ pc' = "dead"
    /\ UNCHANGED <<given, head, edition, work, seals, assemblies>>

-----------------------------------------------------------------------------
(* git show fails on a path the pinned commit does not have.               *)
Fetchable(ref) == ref.system = "git" => ref.uri \in DOMAIN repo[sha]

(* Mutant: the file as HEAD has it.                                        *)
MutFetch(ref) ==
    IF ref.system = "git"
    THEN [content |-> repo[IF ref.uri \in DOMAIN repo[head] THEN head ELSE sha][ref.uri],
          version |-> sha]
    ELSE [content |-> wiki[edition][ref.uri], version |-> edition]

(* fetch: git show sha:path, or the page as it is now.                     *)
Fetch(ref) ==
    IF ref.system = "git"
    THEN [content |-> repo[sha][ref.uri], version |-> sha]
    ELSE [content |-> wiki[edition][ref.uri], version |-> edition]

FetchFails ==
    /\ pc = "gate" /\ keep # <<>>
    /\ ~Fetchable(keep[1])
    /\ pc' = "dead"
    /\ UNCHANGED <<given, head, edition, work, seals, assemblies>>

(* No exception is caught on the way: the assembly ends with the run.      *)
GateFails ==
    /\ pc = "gate" /\ keep # <<>>
    /\ Fetchable(keep[1])
    /\ Raises(Fetch(keep[1]).content, Licence[keep[1].system])
    /\ pc' = "dead"
    /\ UNCHANGED <<given, head, edition, work, seals, assemblies>>

(* One kept ref: fetched, classified, masked, and admitted or excluded.    *)
GateNext ==
    /\ pc = "gate" /\ keep # <<>>
    /\ LET ref == keep[1] IN
       /\ Fetchable(ref)
       /\ LET raw == Fetch(ref) IN
          /\ ~Raises(raw.content, Licence[ref.system])
          /\ \E order \in LongestFirst(raw.content) :
             LET result == Classify(raw.content, Licence[ref.system], order) IN
             IF result.admitted
             THEN /\ artefacts' = Append(artefacts,
                        [uri |-> ref.uri, system |-> ref.system, version |-> raw.version,
                         content |-> result.content, verdict |-> result.verdict])
                  /\ UNCHANGED exclusions
             ELSE /\ exclusions' = exclusions \union {Exclusion(ref, result.reason, "gate")}
                  /\ UNCHANGED artefacts
    /\ keep' = Tail(keep)
    /\ UNCHANGED <<given, head, edition, pc, sha, refs, uncertain, parsed,
                   stored, seals, assemblies>>

(* The manifest is sealed.  corpusHash covers the sorted content hashes:   *)
(* here, how often each content occurs.                                    *)
CorpusHash ==
    [c \in {artefacts[i].content : i \in DOMAIN artefacts} |->
        Cardinality({i \in DOMAIN artefacts : artefacts[i].content = c})]

Seal ==
    /\ pc = "gate" /\ keep = <<>>
    /\ seals' = seals \union
         {[inputs |-> {<<artefacts[i].uri, artefacts[i].version>> : i \in DOMAIN artefacts},
           hash |-> CorpusHash]}
    /\ pc' = "parse"
    /\ UNCHANGED <<given, head, edition, work, assemblies>>

-----------------------------------------------------------------------------
(* S3: every artefact is parsed, in order, before any record is written.   *)
ParseNext ==
    /\ pc = "parse" /\ Len(parsed) < Len(artefacts)
    /\ LET content == artefacts[Len(parsed) + 1].content IN
       /\ Readable(content)
       /\ parsed' = Append(parsed, Records(content))
    /\ UNCHANGED <<given, head, edition, pc, sha, refs, keep, uncertain,
                   exclusions, artefacts, stored, seals, assemblies>>

ParseFails ==
    /\ pc = "parse" /\ Len(parsed) < Len(artefacts)
    /\ ~Readable(artefacts[Len(parsed) + 1].content)
    /\ pc' = "dead"
    /\ UNCHANGED <<given, head, edition, work, seals, assemblies>>

WriteAttributes ==
    /\ pc = "parse" /\ Len(parsed) = Len(artefacts)
    /\ stored' = {[uri |-> artefacts[i].uri, records |-> parsed[i]] : i \in DOMAIN parsed}
    /\ pc' = "done"
    /\ UNCHANGED <<given, head, edition, sha, refs, keep, uncertain,
                   exclusions, artefacts, parsed, seals, assemblies>>

(* The next assembly, in a process of its own.                             *)
NextAssembly ==
    /\ pc \in {"done", "dead"} /\ assemblies < MaxAssemblies
    /\ assemblies' = assemblies + 1
    /\ pc' = "resolve"
    /\ sha' = 0
    /\ refs' = <<>> /\ keep' = <<>> /\ uncertain' = <<>>
    /\ exclusions' = {}
    /\ artefacts' = <<>> /\ parsed' = <<>> /\ stored' = {}
    /\ UNCHANGED <<given, head, edition, seals>>

Next ==
    \/ Commit \/ EditPages
    \/ ResolveHead \/ ListSources \/ Filter
    \/ KeepUncertain \/ Scout \/ ScoutFails
    \/ FetchFails \/ GateFails \/ GateNext \/ Seal
    \/ ParseNext \/ ParseFails \/ WriteAttributes
    \/ NextAssembly

Spec == Init /\ [][Next]_vars

-----------------------------------------------------------------------------
(* The source text an artefact was made from.                              *)
Source(a) == IF a.system = "git" THEN repo[a.version][a.uri] ELSE wiki[a.version][a.uri]

(* OneSnapshot.  Whatever is committed while an assembly runs, each of its *)
(* git artefacts holds the text that path had at the commit the assembly   *)
(* resolved, as the gate masks it: "a later commit on the same repo cannot *)
(* change what an already-issued ArtefactRef fetches".                     *)
OneSnapshot ==
    \A i \in DOMAIN artefacts :
        artefacts[i].system = "git" =>
            /\ artefacts[i].version = sha
            /\ \E order \in LongestFirst(Source(artefacts[i])) :
                  artefacts[i].content = Redact(Source(artefacts[i]), order)

(* AdmittedIsFit.  The ladder in the code and the policy in the YAML file  *)
(* agree on what crosses: an admitted artefact has a permitted licence and *)
(* no sensitive term where the detectors look; no pattern, name or example *)
(* they flagged is left anywhere in its bytes in the spelling they saw;    *)
(* and a text that passed with verdict "allow" is untouched.  What is left *)
(* in another spelling is MaskedInFull's.                                  *)
Holds(doc, value) ==
    \E p \in Places : \E t \in doc.texts[p] : value # {} /\ value \subseteq t

AdmittedIsFit ==
    \A i \in DOMAIN artefacts :
        LET a     == artefacts[i]
            spans == Spans(Source(a))
        IN /\ Licence[a.system] = "permitted"
           /\ a.verdict # "block"
           /\ \A s \in spans :
                 /\ s.label \notin BlockLabels
                 /\ s.label \in MaskLabels => ~Holds(a.content, s.value)
           /\ a.verdict = "allow" => a.content = Source(a)

(* MaskedInFull.  "Every mask-rung span is unconditionally redacted [...]  *)
(* there is no partial-masking failure mode": whoever reads an admitted    *)
(* artefact reads no flagged value in it.                                  *)
(* Violated: the values are what a reader reads and the replace-all looks  *)
(* for them in the bytes, where a name folded over two lines is not found. *)
MaskedInFull ==
    \A i \in DOMAIN artefacts :
        LET a == artefacts[i]
        IN  \A s \in Spans(Source(a)), p \in Places : \A t \in a.content.texts[p] :
                s.label \in MaskLabels /\ s.value # {} => ~(s.value \subseteq Read(t))

(* CorpusHashIsStable.  Two assemblies that admit the same artefacts at    *)
(* the same versions seal the same corpusHash.                             *)
(* Violated: when one value is flagged under two labels the hash seed of   *)
(* the process decides which token replaces it.                            *)
CorpusHashIsStable ==
    \A s, t \in seals :
        s.inputs = t.inputs => s.hash = t.hash
=============================================================================
