---------------------------- MODULE MCWebCrawler ----------------------------
(* Small webs for the model checker. *)
EXTENDS WebCrawler, TLC

CONSTANTS u1, u2, u3, u4, u5, u6

OneSeed == <<u1>>

\* Web: u4 is two links below u1 and an image on u3; u2 links back and is both a
\* link and an image of u1.
WebLinks == [u \in Url |-> CASE u = u1 -> <<u2, u3>>
                             [] u = u2 /\ u6 \in Url -> <<u1, u4, u6>>
                             [] u = u2 /\ u6 \notin Url -> <<u1, u4>>
                             [] u = u3 /\ u5 \in Url -> <<u5>>
                             [] OTHER -> <<>>]
WebImages == [u \in Url |-> CASE u = u1 -> <<u2>>
                              [] u = u3 /\ u5 \in Url -> <<u4, u5>>
                              [] u = u3 /\ u5 \notin Url -> <<u4>>
                              [] OTHER -> <<>>]
WebHost == [u \in Url |-> IF u \in {u1, u3} THEN "a" ELSE "b"]

\* Fan: one page with enough links to fill both queues and block its own push.
FanLinks == [u \in Url |-> IF u = u1 THEN <<u2, u3, u4, u5>> ELSE <<>>]
NoImages == [u \in Url |-> <<>>]

\* Once u3 and u5 have passed the filter, u4 is a false positive.
Bits == 1..9
OverlappingBits == [u \in Url |-> CASE u = u1 -> {1, 2} [] u = u2 -> {3, 4}
                                    [] u = u3 -> {5, 6} [] u = u4 -> {5, 7}
                                    [] u = u5 -> {7, 8} [] u = u6 -> {9}]
OwnBits == [u \in Url |-> CASE u = u1 -> {1} [] u = u2 -> {2} [] u = u3 -> {3}
                            [] u = u4 -> {4} [] u = u5 -> {5} [] u = u6 -> {6}]
=============================================================================
