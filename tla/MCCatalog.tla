------------------------------ MODULE MCCatalog ------------------------------
(* A small instance of Catalog: lists of one page, of a hidden model, and of *)
(* more models and pages than the client takes.                              *)
EXTENDS Catalog

CONSTANTS m1, m2, m3

MCListings == {<< <<m1>> >>,
               << <<m3>> >>,
               << <<Bad, m2>>, <<m3>>, <<m1>> >>,
               << <<m2>>, <<>>, <<>>, <<m1>> >>,
               << <<m2, m3, m2>>, <<m1>> >>}
=============================================================================
