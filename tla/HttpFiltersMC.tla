--------------------------- MODULE HttpFiltersMC ---------------------------
(* Instances of HttpFilters for TLC. *)
EXTENDS HttpFilters

\* A page in a realm, and one of another host that is open.
Site == {"page", "open"}
OneRealm == [u \in Site |-> IF u = "open" THEN None ELSE "realm"]
TwoHosts == [u \in Site |-> IF u = "open" THEN "other" ELSE "host"]
Basic == [r \in {"realm"} |-> "EBasic"]
Digest == [r \in {"realm"} |-> "EDigest"]
RightIsRight == [r \in {"realm"} |-> "right"]

Q(method, uri, body, info) == [method |-> method, uri |-> uri, body |-> body, info |-> info]
GetAndPost == [t \in Tx |-> IF t = "t1" THEN {Q("EPOST", "page", TRUE, "wrong")}
                             ELSE {Q("EGET", "page", FALSE, None)}]

R(code, location) == [code |-> code, location |-> location]
Answers == {R(200, None), R(401, None), R(305, None), R(301, "open"),
            R(302, "page")}
=============================================================================
