------------------------------- MODULE MCWire -------------------------------
(***************************************************************************)
(* Instances of Wire for TLC.                                              *)
(***************************************************************************)
EXTENDS Wire, TLC

\* The second request needs two calls of try_read_tcp to make room for it;
\* the first answer has no records.
MCRequestLens == <<1, 4, 1>>
MCAnswerLens == <<0, 2, 1>>

MCWorkers == {"w1", "w2"}

\* Without threads, with everything that may go wrong there; with one or two,
\* as far as the connection stays.
MCSettings ==
    [threads : {{}},
     faults : { {}, {"pipeline"}, {"segments"}, {"segments", "pipeline"},
                {"pipeline", "full"}, {"segments", "pipeline", "cutrequest", "full"},
                {"pipeline", "realloc", "calloc"}, {"segments", "calloc"} }]
    \union [threads : {{"w1"}, MCWorkers},
            faults : { {}, {"pipeline"}, {"segments"}, {"segments", "pipeline"},
                       {"pipeline", "full"}, {"segments", "pipeline", "full"} }]
=============================================================================
