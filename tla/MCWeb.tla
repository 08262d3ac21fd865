------------------------------- MODULE MCWeb -------------------------------
(***************************************************************************)
(* Small instance of WebPages: two pages, empty, of one byte or of two,    *)
(* and builds of httpd with a key and without one.                         *)
(***************************************************************************)
EXTENDS WebPages

MCContents == {<< >>, <<1>>, <<2, 3>>}
=============================================================================
