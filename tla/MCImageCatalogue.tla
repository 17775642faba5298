-------------------------- MODULE MCImageCatalogue --------------------------
(* Instances of ImageCatalogue for TLC.                                    *)
EXTENDS ImageCatalogue, TLC

FewMethods == {"sanboot", "kernel", "nfs"}
AllMethods == {"sanboot", "kernel", "nbd", "nfs"}

AllOps == {"UploadImage", "DownloadISO", "ListImages", "ScanImages",
           "UpdateImage", "SetBootMethod", "ExtractImage", "RedetectImage",
           "UpdateAutoInstallScript", "PatchImageSMB", "DownloadNetboot",
           "DeleteImage", "DeleteImageFile", "CopyISO", "ExtractByHand"}

\* Nobody but the server writes ISOs.
ServerOps == AllOps \ {"CopyISO"}

\* Everything that makes rows and files disagree.
PairOps == {"UploadImage", "ScanImages", "ExtractImage", "DeleteImage", "CopyISO"}

Symmetry == Permutations(Files) \cup Permutations(Requests)
=============================================================================
