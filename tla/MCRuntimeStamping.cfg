SPECIFICATION StampSpec
CONSTANTS
  SignatureAlignment = 4
  CertificateAlignment = 2
  FileAlignments = {4}
  SectionAlignments = {4, 8}
  Page = 8
  MaxOffset = 64
  MaxImageSize = 64
  MaxSections = 10
  MaxEntries = 2
  Templates <- MCTemplates
  Builds <- MCBuilds
  Bundles <- MCBundles
  Signatures <- MCSignatures
  Runtimes = {"demo"}
  Platforms = {"x64", "arm64"}
  Buffer = 6
  BundleBuffer = 1
  MaxSigns = 2
  MaxEvents = 3
INVARIANTS
  StampReadsBack
  ImageKept
  StampIsOneVersion
  WriterAgreesWithReader
CHECK_DEADLOCK FALSE
