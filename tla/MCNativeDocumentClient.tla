---------------------- MODULE MCNativeDocumentClient ----------------------
(* NativeDocumentClient over two documents, or two contexts of one.          *)
EXTENDS NativeDocumentClient, TLC

=============================================================================
