----------------------------- MODULE MCFileTransfer -----------------------------
(***************************************************************************)
(* Small instances of FileTransfer.                                        *)
(***************************************************************************)
EXTENDS FileTransfer

CONSTANTS m1, c1, essay, empty

\* An essay of two chunks and an empty file.
MCSize == (essay :> 2) @@ (empty :> 0)

OneOrBoth == {<<essay>>, <<empty, essay>>}

NoneOrAll == {{}, Flag}

=============================================================================
