------------------------------ MODULE MCRelay ------------------------------
(***************************************************************************)
(* Instances of Relay for TLC: a head buffer of 1 that grows to 2 and is   *)
(* then cut to 3, heads that end early, exactly at the limit, beyond it    *)
(* and not at all, with and without a line to be replaced.                 *)
(***************************************************************************)
EXTENDS Relay

Line(name) == Field(name, "upstream")
Body       == Field("#", "data")

MCUploads == {<<>>, <<Body, Body>>}

MCResponses ==
    {<<>>, <<EndOfHead, Body>>, <<Line("x-env"), EndOfHead>>,
     <<Line("date"), Line("x-env"), EndOfHead, Body>>,
     <<Line("date"), Line("x-env"), Line("x-env"), EndOfHead>>}

MCGlobalMaps  == {<<>>, Key("x-env", "X-Env") :> "global"}
MCServiceMaps == {<<>>, Key("x-env", "X-Env") :> "service"}
=============================================================================
