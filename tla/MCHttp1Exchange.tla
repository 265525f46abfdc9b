---------------------------- MODULE MCHttp1Exchange ----------------------------
(***************************************************************************)
(* Small instances of Http1Exchange.                                       *)
(***************************************************************************)
EXTENDS Http1Exchange

(* Answers with and without a body and a trailer, that may not have one,   *)
(* and that keep the connection, close it or leave that to write_response. *)
SmallAnswers ==
    [status : {200, 204}, body : {0, 2}, trailers : BOOLEAN,
     connection : {"none", "close", "keep-alive"}]

(* Answers that keep the connection.                                       *)
KeptAnswers ==
    [status : {200, 204}, body : {1}, trailers : BOOLEAN, connection : {"keep-alive"}]

(* A client that asks again where the peer answers, and asks once of one   *)
(* that writes anything: what exchange_kept reads next time it reads with  *)
(* a reader of its own.                                                    *)
Twice == [p \in Peers |-> IF p = "any" THEN 1 ELSE 2]
===============================================================================
