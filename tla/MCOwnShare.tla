---- MODULE MCOwnShare ----
EXTENDS OwnShare
CONSTANTS f1, f2
====
