---------------------------- MODULE MCEitaaImport ----------------------------
\* Five messages before the import and one that may come during it: a list of
\* two products, a product, a loose photo, a text that keeps it from the next
\* product, and two products with their photos.
EXTENDS EitaaImport

MCContent == <<
    [names |-> <<"q1", "q2">>, text |-> TRUE,  photo |-> TRUE],
    [names |-> <<"q1">>,       text |-> TRUE,  photo |-> TRUE],
    [names |-> <<>>,           text |-> FALSE, photo |-> TRUE],
    [names |-> <<>>,           text |-> TRUE,  photo |-> FALSE],
    [names |-> <<"q2">>,       text |-> TRUE,  photo |-> TRUE],
    [names |-> <<"q1">>,       text |-> TRUE,  photo |-> TRUE] >>
=============================================================================
