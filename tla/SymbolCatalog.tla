---------------------------- MODULE SymbolCatalog ----------------------------
(***************************************************************************)
(* The local symbol catalog (symbol_catalog.py; api.py:                    *)
(* symbol_catalog_loop).  A refresh reads each category of a public source *)
(* page by page while the source goes on changing, and publishes what it   *)
(* read as one version; lookups follow the pointer to the active version.  *)
(* Rows are their codes: names, markets and search aliases are left out.   *)
(***************************************************************************)
EXTENDS Naturals, Sequences, FiniteSets, FiniteSetsExt, Functions

CONSTANTS CatNode,        (* the category of each code: a function           *)
          CatNodes,       (* the categories in the order of reading          *)
          CatTolerant,    (* the ones whose end is not checked ("lof")       *)
          CatDropped,     (* codes whose rows _parse_row drops               *)
          CatPage,        (* page_size                                       *)
          CatMinimum,     (* minimum_security_count                          *)
          CatTenths,      (* shrink_ratio in tenths                          *)
          CatKept,        (* versions a publication leaves                   *)
          CatStale,       (* days until the active version is stale          *)
          CatMaxChanges,  (* bound: changes of the source                    *)
          CatMaxVersions  (* bound: versions ever published                  *)

CatCodes == DOMAIN CatNode

ASSUME CatAssumption ==
  /\ CatCodes \subseteq Nat /\ IsFiniteSet(CatCodes)
  /\ CatNodes \in Seq(Range(CatNode)) /\ Range(CatNode) = Range(CatNodes)
  /\ CatNodes # <<>> /\ CatTolerant \subseteq Range(CatNode)
  /\ CatDropped \subseteq CatCodes
  /\ {CatPage, CatMinimum, CatKept, CatStale} \subseteq Nat \ {0}
  /\ CatTenths \in 1 .. 10 /\ CatMaxChanges \in Nat /\ CatMaxVersions \in Nat

VARIABLES catlisted,   (* the codes the source lists now                    *)
          catchanges,  (* changes of the source so far                      *)
          catfetch,    (* the refresh under way                             *)
          catversions, (* the stored versions                               *)
          catactive,   (* the active version; 0 when there is none          *)
          catnext,     (* the next version number                           *)
          catage       (* days since the active version was published       *)

catvars == <<catlisted, catchanges, catfetch, catversions, catactive,
             catnext, catage>>

(* "stayed" are the codes listed since the refresh began, "changes" what    *)
(* has changed at the source since; the program knows neither.              *)
CatIdle == [step |-> "idle"]
CatFetches ==
  {CatIdle} \cup
  [step : {"count", "pages", "publish"}, node : 1 .. Len(CatNodes),
   expected : Nat, seen : Nat, page : Nat, got : SUBSET CatCodes,
   stayed : SUBSET CatCodes, changes : 0 .. CatMaxChanges]
CatVersion ==
  [id : 1 .. CatMaxVersions, codes : SUBSET CatCodes,
   stayed : SUBSET CatCodes, changes : 0 .. CatMaxChanges]

CatInit ==
  /\ catlisted = CatCodes /\ catchanges = 0
  /\ catfetch = CatIdle
  /\ catversions = {} /\ catactive = 0 /\ catnext = 1 /\ catage = 0

(* A security is listed or leaves the list, also between two pages.         *)
SourceChanges(c) ==
  /\ catchanges < CatMaxChanges
  /\ catchanges' = catchanges + 1
  /\ catlisted' = IF c \in catlisted THEN catlisted \ {c}
                                     ELSE catlisted \cup {c}
  /\ catfetch' = IF catfetch = CatIdle THEN CatIdle
                 ELSE [catfetch EXCEPT !.stayed = @ \ {c}, !.changes = @ + 1]
  /\ UNCHANGED <<catversions, catactive, catnext, catage>>

CatDayPasses ==
  /\ catactive # 0 /\ catage <= CatStale
  /\ catage' = catage + 1
  /\ UNCHANGED <<catlisted, catchanges, catfetch, catversions, catactive, catnext>>

(* refresh, at the hour of the day or at a start that finds no version, or  *)
(* an old one.  One loop runs it: no two refreshes overlap.                 *)
BeginRefresh ==
  /\ catfetch = CatIdle
  /\ catfetch' = [step |-> "count", node |-> 1, expected |-> 0, seen |-> 0,
                  page |-> 1, got |-> {}, stayed |-> catlisted, changes |-> 0]
  /\ UNCHANGED <<catlisted, catchanges, catversions, catactive, catnext, catage>>

ListedIn(n) == {c \in catlisted : CatNode[c] = CatNodes[n]}

NodeEnds(f) ==
  IF f.node < Len(CatNodes)
  THEN [f EXCEPT !.step = "count", !.node = @ + 1]
  ELSE [f EXCEPT !.step = "publish"]

(* _fetch_count, and the first test of the page loop.                       *)
FetchCount ==
  /\ catfetch.step = "count"
  /\ LET n == Cardinality(ListedIn(catfetch.node))
         f == [catfetch EXCEPT !.expected = n, !.seen = 0, !.page = 1]
     IN catfetch' = IF n = 0 THEN NodeEnds(f) ELSE [f EXCEPT !.step = "pages"]
  /\ UNCHANGED <<catlisted, catchanges, catversions, catactive, catnext, catage>>

(* The place of a code in a listing, which is in the order of the codes; and *)
(* the first n rows of a page, which starts at the page's offset.            *)
Place(S, c) == Cardinality({d \in S : d < c})
RowsOf(f, n) ==
  LET S == ListedIn(f.node)
      offset == (f.page - 1) * CatPage
  IN {c \in S : offset <= Place(S, c) /\ Place(S, c) < offset + n}

EndsEarlyMutant(f, n) == n = 0 /\ f.seen = 0

(* A page that ends the listing too early: nothing, or too few, except in a *)
(* tolerant category that has returned something.                           *)
EndsEarly(f, n) ==
  /\ CatNodes[f.node] \notin CatTolerant \/ f.seen + n = 0
  /\ \/ n = 0
     \/ n < CatPage /\ f.expected > f.seen + n + 1

(* The source may return only the first rows of the page.  A row of another *)
(* market, or without a name, is counted as seen and not kept.              *)
FetchPage ==
  /\ catfetch.step = "pages"
  /\ \E n \in 0 .. Cardinality(RowsOf(catfetch, CatPage)) :
       LET f == [catfetch EXCEPT !.seen = @ + n, !.page = @ + 1,
                                 !.got = @ \cup (RowsOf(catfetch, n) \ CatDropped)]
       IN catfetch' =
            CASE EndsEarly(catfetch, n) -> CatIdle
              [] ~EndsEarly(catfetch, n) /\ (n < CatPage \/ f.seen >= f.expected) ->
                   NodeEnds(f)
              [] OTHER -> f
  /\ UNCHANGED <<catlisted, catchanges, catversions, catactive, catnext, catage>>

(* The source cannot be reached, or answers what is not a list of rows.     *)
FetchFails ==
  /\ catfetch.step \in {"count", "pages"}
  /\ catfetch' = CatIdle
  /\ UNCHANGED <<catlisted, catchanges, catversions, catactive, catnext, catage>>

ActiveCodes ==
  UNION {v.codes : v \in {w \in catversions : w.id = catactive}}
Smallest ==
  Max({CatMinimum, (Cardinality(ActiveCodes) * CatTenths + 9) \div 10})

Newest(vs) ==
  {v \in vs : Cardinality({w \in vs : w.id > v.id}) < CatKept}

(* One transaction: the version, the pointer and the pruning.               *)
PublishVersion ==
  /\ catfetch.step = "publish" /\ catnext <= CatMaxVersions
  /\ catfetch' = CatIdle
  /\ IF Cardinality(catfetch.got) < Smallest
     THEN UNCHANGED <<catversions, catactive, catnext, catage>>
     ELSE /\ catversions' =
               Newest(catversions \cup
                 {[id |-> catnext, codes |-> catfetch.got,
                   stayed |-> catfetch.stayed, changes |-> catfetch.changes]})
          /\ catactive' = catnext /\ catnext' = catnext + 1 /\ catage' = 0
  /\ UNCHANGED <<catlisted, catchanges>>

CatRestart ==
  /\ catfetch # CatIdle
  /\ catfetch' = CatIdle
  /\ UNCHANGED <<catlisted, catchanges, catversions, catactive, catnext, catage>>

CatNext ==
  \/ \E c \in CatCodes : SourceChanges(c)
  \/ CatDayPasses \/ BeginRefresh \/ FetchCount \/ FetchPage \/ FetchFails
  \/ PublishVersion \/ CatRestart

CatSpec == CatInit /\ [][CatNext]_catvars

-----------------------------------------------------------------------------
(* The shape of the source, the refresh and the stored versions.            *)
CatTypeOK ==
  /\ catlisted \subseteq CatCodes /\ catchanges \in 0 .. CatMaxChanges
  /\ catfetch \in CatFetches
  /\ catversions \subseteq CatVersion
  /\ catactive \in 0 .. CatMaxVersions /\ catnext \in 1 .. CatMaxVersions + 1
  /\ catage \in 0 .. CatStale + 1

(* The pointer names a stored version, and that version lacks at most one   *)
(* readable code more of the strict categories than the source changed      *)
(* while it was read: a page that shifts or ends early cannot lose a part   *)
(* of the market, though rows that are counted are dropped                  *)
(* (SinaSymbolCatalogSource._fetch_node, SQLiteSymbolCatalog.refresh).      *)
CatalogNearlyComplete ==
  /\ catactive # 0 => \E v \in catversions : v.id = catactive
  /\ \A v \in catversions :
       Cardinality({c \in v.stayed \ (v.codes \cup CatDropped) :
                      CatNode[c] \notin CatTolerant})
         <= v.changes + Cardinality({k \in 1 .. Len(CatNodes) :
                                       CatNodes[k] \notin CatTolerant})
=============================================================================
