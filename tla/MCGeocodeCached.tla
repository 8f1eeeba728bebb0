-------------------------- MODULE MCGeocodeCached --------------------------
(* Three requests for one key: a leader, a follower, and one that comes    *)
(* before, between or after them.                                          *)
EXTENDS GeocodeCached

CONSTANT k

MCKeys == {k}
============================================================================
