-------------------------- MODULE MCGraphScheduler --------------------------
(* Programs for TLC that are cut into subgraphs.                            *)
EXTENDS GraphScheduler, TLC

TwoEach == [c \in Chans |-> 2]
Ones    == [c \in Chans |-> 1]

\* The cut of test/gemm/Gemm_DGSF.cpp on one loop: subgraph 0 runs the loop
\* and sends two data for each iteration, subgraph 1 works on each of them
\* separately, subgraph 2 joins them and stores.
ChainChans == {"i_out", "i_var", "a", "a_D", "b_D", "c", "c_D", "d", "d_D", "mul", "st",
               "i_getEnd", "i_sendEnd", "end"}
ChainUp ==
    [c \in ChainChans |->
        CASE c = "i_var" -> <<"i_out">>
          [] c \in {"a", "b_D"} -> <<"i_var">>
          [] c = "a_D" -> <<"a">>
          [] c = "c" -> <<"a_D">>
          [] c = "c_D" -> <<"c">>
          [] c = "d" -> <<"b_D">>
          [] c = "d_D" -> <<"d">>
          [] c = "mul" -> <<"c_D", "d_D">>
          [] c \in {"st", "i_getEnd"} -> <<"mul">>
          [] c = "end" -> <<"i_sendEnd">>
          [] OTHER -> <<>>]
ChainProducers == [s \in 0 .. 2 |-> CASE s = 0 -> {} [] s = 1 -> {"a_D", "b_D"} [] s = 2 -> {"c_D", "d_D"}]
ChainConsumers == [s \in 0 .. 2 |-> CASE s = 0 -> {"a_D", "b_D"} [] s = 1 -> {"c_D", "d_D"} [] s = 2 -> {}]
ChainProgram ==
    << <<"mux", "i">>, <<"get", "i_var">>, <<"lc", "i">>, <<"get", "a">>, <<"get", "a_D">>,
       <<"get", "b_D">>, <<"get", "c">>, <<"get", "c_D">>, <<"get", "d">>, <<"get", "d_D">>,
       <<"get", "mul">>, <<"lse", "st">>, <<"sched", "graph">>, <<"get", "end">> >>
\* Subgraph 1 counts as divergent: an if without an else, whose condition holds.
ChainDivergence == [s \in {1} |-> << {"c_D"}, {"d_D"}, {} >>]
ChainNest == [c \in {"i_var", "a", "a_D", "b_D", "c", "c_D", "d", "d_D", "mul", "st"} |-> <<"i">>]
ChainLoopVar == [l \in Lcs |-> "i_var"]
ChainOutChan == [l \in Lcs |-> "i_out"]
ChainGetEnd  == [l \in Lcs |-> "i_getEnd"]
ChainSendEnd == [l \in Lcs |-> "i_sendEnd"]
Bound5       == [l \in Lcs |-> 5]
LateAD       == [c \in Chans |-> IF c \in {"a", "d"} THEN 2 ELSE 0]
=============================================================================
