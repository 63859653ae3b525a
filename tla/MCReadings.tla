------------------------------ MODULE MCReadings ------------------------------
(* Messages of up to nine tokens, every User-Agent of two products with    *)
(* versions of up to three parts, every Server-Timing header of three      *)
(* entries, every roster of up to one row too many.                        *)
EXTENDS Readings

Prefixes == {<<"x">>, <<"x", "comma">>, <<"x", "by", "x">>}
Openings == {<<>>, <<"open", "x">>, <<"the", "album">>}
MCBeginnings ==
  {<<>>} \union {p \o <<prep>> \o o : p \in Prefixes, prep \in {"on", "from", "off"}, o \in Openings}

Numbers == {0, 2, 3, 10}
Versions == UNION {[1 .. n -> Numbers] : n \in 1 .. 3}
MCProducts == [product : {"WXYC-iOS", "other"}, version : Versions]

MCLegs == [name : {"total", "lml_total", "search", "lookup_service", BadName},
           dur : Durations \union {NoDuration}]
=============================================================================
