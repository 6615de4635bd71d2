------------------------------ MODULE MCForward ------------------------------
(***************************************************************************)
(* Instance of Forward: X-Amz-Signature is key 5 and the other query-auth  *)
(* parameters together key 4; value 3 has a semicolon.                     *)
(***************************************************************************)
EXTENDS Forward

P(k, v, f) == [key |-> k, val |-> v, form |-> f]

MCAuthKey == {4, 5}
MCSpecial == {3}

\* Two orders and two escapings of the same parameters, values with a semicolon, a
\* broken escape; the last four belong to presigned URLs.
MCQuery ==
  { <<>>, <<P(1, 1, "escaped")>>,
    <<P(1, 1, "plain"), P(1, 2, "plain")>>, <<P(1, 2, "escaped"), P(1, 1, "plain")>>,
    <<P(2, 1, "plain"), P(1, 2, "plain")>>,
    <<P(1, 3, "plain")>>, <<P(1, 3, "escaped")>>, <<P(1, 1, "plain"), P(2, 1, "broken")>>,
    <<P(4, 0, "plain"), P(1, 2, "plain"), P(1, 3, "plain")>>,
    <<P(1, 3, "escaped"), P(4, 0, "escaped"), P(1, 2, "plain")>>,
    <<P(4, 0, "escaped"), P(1, 2, "plain")>>, <<P(4, 0, "plain"), P(1, 2, "broken")>> }

\* An endpoint without a path or a query, with a path, and with a query.
MCEndpoint ==
  { [path |-> FALSE, query |-> <<>>], [path |-> TRUE, query |-> <<>>],
    [path |-> FALSE, query |-> <<P(1, 3, "plain")>>] }

MCConnection == { {}, {"authorization"}, {"x-amz-date"}, {"x-amz-meta", "x-amz-security-token"} }

=============================================================================
