---------------------------- MODULE MCTabRegistry ----------------------------
EXTENDS TabRegistry

CONSTANTS k1, k2, t1

Qr(version, url, userinfo) ==
  [scheme |-> "hermes", host |-> "connect", version |-> version, url |-> url,
   userinfo |-> userinfo]

\* One payload that pairs and three that parse_qr_payload refuses.
MCPayloads == {Qr(1, "http", FALSE), Qr(2, "http", FALSE), Qr(1, "ftp", FALSE), Qr(1, "http", TRUE)}

\* Picked leaves what SelectSeq leaves.
ASSUME PickedIsSelectSeq ==
  \A n \in 0 .. 4 : \A s \in [1 .. n -> 1 .. 3], keep \in SUBSET (1 .. 3) :
    Picked(s, {i \in DOMAIN s : s[i] \in keep}) = SelectSeq(s, LAMBDA x : x \in keep)
=============================================================================
