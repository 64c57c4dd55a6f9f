\* Two descriptors: the port's and read_file's.
SPECIFICATION Spec
CONSTANT Fds = {3, 4}
INVARIANT ReadsOwnDevice
