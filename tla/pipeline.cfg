\* busybox, the initramfs and the ISO; the kernel is there. An edit of zevinit.
SPECIFICATION Spec
CONSTANTS
  Scripts = {"configure_busybox", "build_busybox", "build_initramfs_root",
             "build_initramfs", "build_iso"}
  MaxEdits = 1
INVARIANTS
  TypeOK
  InitIsNeverStale
  RightWhenRunInOrder
CHECK_DEADLOCK FALSE
