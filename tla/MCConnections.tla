--------------------------- MODULE MCConnections ----------------------------
(* Two networks, one of which is to keep trying and has a vhost, and two    *)
(* rehashes, which may keep, drop and add networks.  Four tsockets are as    *)
(* many as these can get: two at the start, one for the retried network      *)
(* after each rehash.                                                        *)
EXTENDS Listener
=============================================================================
