---------------------------- MODULE MCUtilities ------------------------------
(***************************************************************************)
(* The utilities, the name checks and the exposition.  They do not know of *)
(* each other, so a behaviour is that of one of them, chosen at the start, *)
(* or one call of a function that keeps nothing.                           *)
(***************************************************************************)
EXTENDS ConfigFile, LruCache, Buffer, Observers, WorkerThreads, MCConversions

VARIABLE part   \* the utility this behaviour is about

rest == <<lruVars, bufVars, obsVars, workVars, cfgVars, call>>

MCFiles == {<<>>, <<Newline>>, <<Newline, Other, Newline>>, <<Other, Newline>>,
            <<Other, Other>>, <<Other, Newline, Other>>, <<Other, Newline, Clusters>>,
            <<Clusters, Newline, Other, Newline, DataDir, Newline>>,
            <<Clusters, Newline, Key, "h2", Newline, Other, Newline>>}

MCChunks == {<<"x">>, <<CR, LF>>}

MCSizes == [b \in Buffers |-> IF b = 1 THEN 3 ELSE 2]

Init == /\ part \in {"config", "lru", "buffer", "observer", "threads", "conversion"}
        /\ LruInit /\ BufInit /\ ObsInit /\ WorkInit /\ CfgInit /\ ConvInit
        /\ part = "config" \/ src = <<>>

OthersStay(mine) ==
  /\ UNCHANGED part
  /\ mine # "config" => UNCHANGED cfgVars
  /\ mine # "lru" => UNCHANGED lruVars
  /\ mine # "buffer" => UNCHANGED bufVars
  /\ mine # "observer" => UNCHANGED obsVars
  /\ mine # "threads" => UNCHANGED workVars
  /\ mine # "conversion" => UNCHANGED call

Main == part = "threads" /\ MainStep /\ OthersStay("threads")

Thread(t) == part = "threads" /\ Worker(t) /\ OthersStay("threads")

Next == \/ part = "config" /\ CfgNext /\ OthersStay("config")
        \/ part = "lru" /\ LruNext /\ OthersStay("lru")
        \/ part = "buffer" /\ BufNext /\ OthersStay("buffer")
        \/ part = "observer" /\ ObsNext /\ OthersStay("observer")
        \/ part = "conversion" /\ MCConvNext /\ OthersStay("conversion")
        \/ Main
        \/ \E t \in Workers : Thread(t)

(* Only the threads of testMutex are scheduled fairly. *)
Spec == /\ Init /\ [][Next]_<<part, rest>>
        /\ WF_<<part, rest>>(Main)
        /\ \A t \in Workers : WF_<<part, rest>>(Thread(t))
==============================================================================
