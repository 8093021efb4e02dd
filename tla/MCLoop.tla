------------------------------- MODULE MCLoop -------------------------------
(* Programs for TLC: a loop whose body branches and joins, and a loop       *)
(* nest whose inner body uses the outer variable through a keepMode channel.*)
EXTENDS Loop, TLC

\* The channels of the loop controllers, with their capacity of 2.
LcPart == {"i_out", "i_var", "i_getEnd", "i_sendEnd", "j_out", "j_var", "j_getEnd", "j_sendEnd", "end"}

Named(l, i, j) == IF l = "i" THEN i ELSE j
MCloopVar == [l \in Lcs |-> Named(l, "i_var", "j_var")]
MCoutChan == [l \in Lcs |-> Named(l, "i_out", "j_out")]
MCgetEnd  == [l \in Lcs |-> Named(l, "i_getEnd", "j_getEnd")]
MCsendEnd == [l \in Lcs |-> Named(l, "i_sendEnd", "j_sendEnd")]

Ones     == [c \in Chans |-> 1]
Zeros    == [c \in Chans |-> 0]
TwoEach  == [c \in Chans |-> 2]
OneInBody == [c \in Chans |-> IF c \in LcPart THEN 2 ELSE 1]

Bound3   == [l \in Lcs |-> 3]
Bound5   == [l \in Lcs |-> 5]
Bound23  == [l \in Lcs |-> IF l = "i" THEN 2 ELSE 3]

\* The body of test/aes/Aes_Base.cpp: for i: m = cond(i) ? t(i) : f2(f1(i));
\* store m, and a slow consumer of i itself.  As in generated programs, the
\* program does not overwrite the cond of cond's datum (Aes_Base.cpp:168 does).
BranchChans == {"i_out", "i_var", "cond", "t", "f1", "f2", "m", "lse", "st", "i_getEnd", "i_sendEnd", "end"}
BranchUp ==
    [c \in BranchChans |->
        CASE c = "i_var" -> <<"i_out">>
          [] c \in {"cond", "lse"} -> <<"i_var">>
          [] c \in {"t", "f1"} -> <<"cond">>
          [] c = "f2" -> <<"f1">>
          [] c = "m" -> <<"cond", "t", "f2">>
          [] c \in {"st", "i_getEnd"} -> <<"m">>
          [] c = "end" -> <<"i_sendEnd">>
          [] OTHER -> <<>>]
\* Downstream channels first.
BranchProgramBack ==
    << <<"lse", "st">>, <<"lse", "lse">>, <<"get", "m">>, <<"get", "f2">>, <<"get", "f1">>, <<"get", "t">>,
       <<"get", "cond">>, <<"mux", "i">>, <<"get", "i_var">>, <<"lc", "i">>, <<"get", "end">> >>
\* This network is one the theorems of Loop_proofs on the order of iterations
\* and on the end of the program are about.
ASSUME BranchIsPlain == Chans = BranchChans => BranchNetwork /\ EndNetwork

BranchNest == [c \in {"i_var", "cond", "t", "f1", "f2", "m", "lse", "st"} |-> <<"i">>]
LatePaths  == [c \in Chans |-> CASE c = "t" -> 2 [] c = "f1" -> 1 [] OTHER -> 0]
SpeedPaths == [c \in Chans |-> CASE c = "t" -> 2 [] c = "f2" -> 3 [] OTHER -> 1]

\* for i: for j: body(i, j); store body; sum drains the last body of each i
NestChans == {"i_out", "i_var", "i_lc", "j_out", "j_var", "body", "st", "sum", "j_getEnd",
              "j_sendEnd", "i_getEnd", "i_sendEnd", "end"}
NestUp ==
    [c \in NestChans |->
        CASE c = "i_var" -> <<"i_out">>
          [] c = "i_lc" -> <<"i_var">>
          [] c = "j_var" -> <<"j_out", "i_lc">>
          [] c = "body" -> <<"j_var", "i_lc">>
          [] c \in {"st", "sum", "j_getEnd"} -> <<"body">>
          [] c = "i_getEnd" -> <<"j_sendEnd">>
          [] c = "end" -> <<"i_sendEnd">>
          [] OTHER -> <<>>]
NestProgram ==
    << <<"mux", "i">>, <<"get", "i_var">>, <<"lc", "i">>, <<"get", "i_lc">>,
       <<"mux", "j">>, <<"get", "j_var">>, <<"lc", "j">>, <<"get", "body">>,
       <<"get", "sum">>, <<"lse", "st">>, <<"get", "end">> >>
NestNest == [c \in {"i_var", "i_lc", "j_var", "body", "st", "sum"} |->
                IF c \in {"i_var", "i_lc", "sum"} THEN <<"i">> ELSE <<"i", "j">>]
LateBody == [c \in Chans |-> IF c = "body" THEN 1 ELSE 0]

\* The same, with a second consumer of j next to body.
Nest2Chans == NestChans \cup {"lse"}
Nest2Up == [c \in Nest2Chans |-> IF c = "lse" THEN <<"j_var">> ELSE NestUp[c]]
Nest2Program == SubSeq(NestProgram, 1, 10) \o << <<"lse", "lse">>, <<"get", "end">> >>
Nest2Nest == [c \in DOMAIN NestNest \cup {"lse"} |-> IF c = "lse" THEN <<"i", "j">> ELSE NestNest[c]]

=============================================================================
