------------------------------- MODULE MCHosts --------------------------------
(* What is around a running program, in one run.  A behaviour moves one part *)
(* of it, for they share nothing here.                                       *)
EXTENDS Hosts, TLC

CONSTANT Parts   \* which of them may move
VARIABLE part    \* what moves

-----------------------------------------------------------------------------
(* Loading: two paths to a file, and files that load one another.          *)

Binds(g) == [s |-> "bind", g |-> g]
Reads(g) == [s |-> "read", g |-> g]
Loads(p) == [s |-> "load", path |-> p]
Tries(p) == [s |-> "try", path |-> p]

MCBlock == <<Reads("x")>>
MCReal == ("f" :> "f") @@ ("./f" :> "f") @@ ("g" :> "g")

MCPrograms ==
  {<<Tries("f"), Loads("./f"), Reads("x"), Reads("x")>>, <<Reads("x"), Reads("x")>>,
   <<Binds("x"), Reads("x"), Loads("g")>>, <<Tries("g"), Tries("f"), Binds("y"), Reads("x")>>}

MCFiles ==
  {("f" :> f) @@ ("g" :> g) :
     f \in {<<Binds("x"), Loads("f")>>, <<Tries("g"), Reads("y"), Binds("x")>>,
            <<Loads("g"), Binds("x")>>, Unusable},
     g \in {<<Binds("x"), Loads("./f")>>, <<Tries("f"), Reads("y")>>, Unusable}}

-----------------------------------------------------------------------------
(* History: a line longer than the buffer, and one that fills it.          *)

MCLastPiece == ("long" :> "b") @@ ("full" :> "")

-----------------------------------------------------------------------------
(* Children: nothing asked of a stream, anything asked of one or of two, or *)
(* of all three; and a name and a manner that there are not.                *)

MCStandings == {0 .. 2, {1, 2}, {0, 2}}
MCAsked == {<<n, v>> : n \in {"stdin", "stdout", "stderr"}, v \in {"share", "discard", "merge", "log"}}

MCRequests ==
  {<<>>, <<<<"stdlog", "log">>>>, <<<<"stdin", "log">>, <<"stderr", "keep">>>>}
    \cup {<<p>> : p \in MCAsked} \cup {<<p, q>> : p, q \in MCAsked}
    \cup {<<<<"stdin", "in">>, <<"stderr", v>>, <<"stdout", "log">>>> : v \in {"merge", "discard"}}

-----------------------------------------------------------------------------
unwinding ==
  <<calls, vm, stepsLeft, pc, result, executed, raised, exits, handed, dropped, outranked, late,
    ensures, cleanups>>
loading == <<disk, machines, chunks, frames, serial>>
remembering == <<history, file, line, arrow, pending, own, entered>>
running == <<standing, descriptors, request, step, processes, pipe, output, status, short, written>>

\* What does not move begins in one of its initial states.
MCInit ==
  /\ part \in Parts
  /\ Init /\ M!Init /\ H!Init
  /\ L!Init
  /\ part # "loading" => /\ disk = CHOOSE d \in Texts : TRUE
                         /\ chunks[L!HostChunk] = L!Chunk(CHOOSE p \in Programs : TRUE)
  /\ C!Init
  /\ part # "running" => standing = 0 .. 2

MCNext ==
  \/ /\ part = "retaining" /\ Next
     /\ UNCHANGED <<unwinding, loading, remembering, running, part>>
  \/ /\ part = "unwinding" /\ M!Next
     /\ UNCHANGED <<vars, loading, remembering, running, part>>
  \/ /\ part = "loading" /\ L!Next
     /\ UNCHANGED <<vars, unwinding, remembering, running, part>>
  \/ /\ part = "remembering" /\ H!Next
     /\ UNCHANGED <<vars, unwinding, loading, running, part>>
  \/ /\ part = "running" /\ C!Next
     /\ UNCHANGED <<vars, unwinding, loading, remembering, part>>

MCSpec ==
  /\ MCInit
  /\ [][MCNext]_<<vars, unwinding, loading, remembering, running, part>>
===============================================================================
