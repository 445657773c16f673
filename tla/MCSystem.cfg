CONSTANT
    Parts = {"Cores", "Files", "VirtioBlk", "Nvme", "Fsd", "Netd", "Securityd",
             "Services", "Xhci", "Input", "Windows", "Booting", "Packages",
             "Gpu", "Sound", "Display"}
SPECIFICATION Spec
INVARIANTS TypeOK  FsExact DiskIntact CrashDurable NetStreamExact OneInstance
           UsbTreeSound TerminalText   InstalledExact
           MediaInStep
CHECK_DEADLOCK FALSE
