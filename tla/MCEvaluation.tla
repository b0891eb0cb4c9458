--------------------------- MODULE MCEvaluation ---------------------------
(***************************************************************************)
(* Values of the constants of Evaluation for model checking.               *)
(***************************************************************************)
EXTENDS Evaluation, GoldenDataset

\* The first two scenarios: one expects approval, the other an escalation.
MCSelections == {{1, 2}}

\* No diagnosis, and the right action of either scenario: with all the tools and
\* full marks of the judge, or with some of them and a judge that failed.
MCInvestigated ==
    {[action |-> NoAction, called |-> {}, judge |-> Unscored],
     [action |-> "rollback_deployment", called |-> Tools, judge |-> 1000],
     [action |-> "escalate", called |-> {"get_logs"}, judge |-> Unscored]}
=============================================================================
