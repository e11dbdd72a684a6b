---------------------------- MODULE MCStatistics ----------------------------
(* Instances of Statistics for TLC.                                        *)
EXTENDS Statistics

(* A visitor, a spider that asks for what is not there, and the visitor    *)
(* answered with a status no standard has.                                 *)
Visit == [ip |-> 1, uri |-> 1, agent |-> "browser", page |-> TRUE,
          status |-> "ok"]
Crawl == [ip |-> 2, uri |-> 2, agent |-> "crawler", page |-> FALSE,
          status |-> "error"]
Odd == [Visit EXCEPT !.uri = 2, !.page = FALSE, !.status = "beyond"]

MCKinds == {Visit, Crawl, Odd}
MCSpiderOf == [browser |-> None, crawler |-> "Bot"]

(* The two fall into one register of a sketch of precision 1 by address,   *)
(* with different ranks, and into different ones by visitor.               *)
MCHashOf == [uv |-> Visit :> 1 @@ Odd :> 1 @@ Crawl :> 6,
             ip |-> Visit :> 3 @@ Odd :> 3 @@ Crawl :> 0]

(* A report shows the first value only.                                    *)
MCRankLimit == [page \in Pages |-> IF page = "reports" THEN 1 ELSE 2]
=============================================================================
