------------------------------- MODULE MCBridge -------------------------------
(***************************************************************************)
(* Requests for the checks of Bridge: a timed command and one without a    *)
(* STOP for overlapping channels of one remote, and an unsound one.        *)
(***************************************************************************)
EXTENDS Bridge

Request(id, small, channels, timed) ==
    [id |-> id, remote |-> [digits |-> "a1b2c3:42", small |-> small],
     channels |-> channels, timed |-> timed, sound |-> TRUE]

SomeRequests ==
    {Request("long", TRUE, <<1, 2>>, TRUE), Request("tap", FALSE, <<2, 3>>, FALSE),
     Request("odd", FALSE, <<2, 1>>, FALSE)}
=============================================================================
