---------------------------- MODULE MCGatewayJWT ----------------------------
(* A small instance of GatewayJWT. *)
EXTENDS GatewayJWT

CONSTANTS k1, k2

(* A token for either key (one for an audience that is not checked), one    *)
(* without a kid, which the only key there is may not have signed, and one  *)
(* that does not parse.                                                     *)
MCToken ==
    {[kid |-> k1,    signer |-> k1, defects |-> {}],
     [kid |-> k2,    signer |-> k2, defects |-> {"audience"}],
     [kid |-> NoKid, signer |-> k1, defects |-> {}],
     [kid |-> k1,    signer |-> k1, defects |-> {"form"}]}

(* A handler that checks all but the audience. *)
MCConfig ==
    {[sources |-> TRUE, mtls |-> "listed", optional |-> TRUE,
      checked |-> {"issuer"}]}
=============================================================================
