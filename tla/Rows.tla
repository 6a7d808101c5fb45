-------------------------------- MODULE Rows --------------------------------
(***************************************************************************)
(* What a request does to a row it has loaded.  SQLAlchemy keeps the row   *)
(* as it was read (expire_on_commit and autoflush are off) and its UPDATE  *)
(* names only the columns whose value differs from the loaded one: the     *)
(* others keep what the database has by then.                              *)
(***************************************************************************)

\* The column in the database is db; it was loaded as old and is now new.
PutAlways(db, old, new) == new
Put(db, old, new) == IF new = old THEN db ELSE new

=============================================================================
